---------------------------- MODULE Spec2Model ----------------------------
(***************************************************************************)
(* A model of DungeonGenerator (src/src/dungeonGenerator.ts).              *)
(*                                                                         *)
(* Numbers.  All coordinates and sizes are integers.  The random source    *)
(* is represented by its integer state s; random() is s / 233280.          *)
(* complexityLevel and overlapChance are kept in tenths (0, 5, 10 stand for *)
(* 0, 0.5, 1).  With the levels and chances used here the doubles of the   *)
(* code give the same floor(n * complexityLevel), and the same             *)
(* random() < overlapChance * complexityLevel, as the exact tenths.  Room  *)
(* centres with width / 2 are kept doubled.  Path costs (0.5 or 1 a step)  *)
(* are kept doubled.                                                       *)
(***************************************************************************)
EXTENDS Integers, Sequences, FiniteSets, TLC

Max(a, b) == IF a >= b THEN a ELSE b
Min(a, b) == IF a <= b THEN a ELSE b
Abs(a) == IF a >= 0 THEN a ELSE -a

(***************************************************************************)
(* SeededRandom                                                            *)
(***************************************************************************)
Modulus == 233280

\* (n * 9301 + c) mod Modulus for n >= 0; 9301 = 93 * 100 + 1 keeps every
\* product within 32 bits.
LcgMod(n, c) ==
  ((((n % Modulus) * 93) % Modulus) * 100 + (n % Modulus) + c + Modulus) % Modulus

\* this.seed = (this.seed * 9301 + 49297) % 233280, where % is the
\* JavaScript remainder: its sign is the sign of the dividend.
NextSeed(seed) ==
  IF seed >= 0 THEN LcgMod(seed, 49297)
  ELSE IF -seed <= 49297 \div 9301 THEN seed * 9301 + 49297
  ELSE -LcgMod(-seed, -49297)

\* randomInt: Math.floor(random() * (max - min + 1)) + min
RandomInt(seed, min, max) ==
  LET s == NextSeed(seed)
  IN  [rng |-> s, val |-> ((s * (max - min + 1)) \div Modulus) + min]

\* randomBool(p), p = num / 100:  random() < p
RandomBool(seed, num) ==
  LET s == NextSeed(seed)
  IN  [rng |-> s, val |-> s * 100 < num * Modulus]

(***************************************************************************)
(* Room layout                                                             *)
(***************************************************************************)
RoomId(i) == "room_" \o ToString(i)

\* One iteration of the candidate loop of generateRooms.
NewCandidate(cfg, seed, i) ==
  LET w == RandomInt(seed, cfg.minRoomSize, cfg.maxRoomSize)
      h == RandomInt(w.rng, cfg.minRoomSize, cfg.maxRoomSize)
      x == RandomInt(h.rng, 1, cfg.dungeonWidth - w.val - 1)
      y == RandomInt(x.rng, 1, cfg.dungeonHeight - h.val - 1)
  IN  [rng |-> y.rng,
       room |-> [id |-> RoomId(i), x |-> x.val, y |-> y.val,
                 width |-> w.val, height |-> h.val,
                 type |-> "room", connectedTo |-> <<>>]]

\* The candidate loop of generateRooms on the state s = [rng, rooms]; the
\* loop index i is the number of candidates made so far.
RECURSIVE Candidates(_, _, _)
Candidates(cfg, s, total) ==
  IF Len(s.rooms) >= total THEN s
  ELSE LET c == NewCandidate(cfg, s.rng, Len(s.rooms))
       IN  Candidates(cfg, [rng |-> c.rng, rooms |-> Append(s.rooms, c.room)],
                      total)

CalculateOverlap(room1, room2) ==
  [x |-> Max(0, Min(room1.x + room1.width, room2.x + room2.width)
                - Max(room1.x, room2.x)),
   y |-> Max(0, Min(room1.y + room1.height, room2.y + room2.height)
                - Max(room1.y, room2.y))]

RECURSIVE ISqrtIter(_, _)
ISqrtIter(n, x) ==
  LET y == (x + n \div x) \div 2
  IN  IF y >= x THEN x ELSE ISqrtIter(n, y)

\* floor(sqrt(n)) for 0 <= n <= bound * bound
ISqrt(n, bound) == IF n = 0 THEN 0 ELSE ISqrtIter(n, bound)

\* (d / distance) * separationForce in thousandths, rounded towards zero,
\* for a doubled centre difference (d2, e2) along (this axis, other axis);
\* distance is replaced by 1 when it is 0, and then d is 0.
ForceTerm(d2, e2) ==
  LET n == d2 * d2 + e2 * e2
      t == IF n = 0 THEN 0 ELSE ISqrt((4000000 * d2 * d2) \div n, 2000)
  IN  IF d2 >= 0 THEN t ELSE -t

\* Math.round(v) for v in thousandths
RoundThousandths(v) == (2 * v + 1000) \div 2000

\* The loop over j of applySpatialSeparation for candidate i, on the state
\* s = [j, x, y] (x, y: forceX, forceY in thousandths).
RECURSIVE SumForce(_, _, _)
SumForce(candidates, i, s) ==
  IF s.j > Len(candidates) THEN s
  ELSE IF i = s.j THEN SumForce(candidates, i, [s EXCEPT !.j = s.j + 1])
  ELSE LET room == candidates[i]
           other == candidates[s.j]
           overlap == CalculateOverlap(room, other)
           dx2 == (2 * room.x + room.width) - (2 * other.x + other.width)
           dy2 == (2 * room.y + room.height) - (2 * other.y + other.height)
       IN  IF overlap.x > 0 /\ overlap.y > 0
           THEN SumForce(candidates, i,
                         [j |-> s.j + 1,
                          x |-> s.x + ForceTerm(dx2, dy2),
                          y |-> s.y + ForceTerm(dy2, dx2)])
           ELSE SumForce(candidates, i, [s EXCEPT !.j = s.j + 1])

\* The body of the loop over i of applySpatialSeparation: candidate i moves.
MoveCandidate(cfg, candidates, i) ==
  LET room == candidates[i]
      force == SumForce(candidates, i, [j |-> 1, x |-> 0, y |-> 0])
      nx == Max(1, Min(cfg.dungeonWidth - room.width - 1,
                       room.x + RoundThousandths(force.x)))
      ny == Max(1, Min(cfg.dungeonHeight - room.height - 1,
                       room.y + RoundThousandths(force.y)))
  IN  [candidates EXCEPT ![i] = [room EXCEPT !.x = nx, !.y = ny]]

\* The loop over i, on the state s = [i, candidates].
RECURSIVE SeparationPass(_, _)
SeparationPass(cfg, s) ==
  IF s.i > Len(s.candidates) THEN s.candidates
  ELSE SeparationPass(cfg, [i |-> s.i + 1,
                            candidates |-> MoveCandidate(cfg, s.candidates, s.i)])

\* applySpatialSeparation: the loop over iter, as n passes from the state
\* s = [candidates, stable].  A pass is a function of the candidates alone,
\* so once a pass changes nothing (stable) the remaining passes change nothing
\* and are not evaluated.  n passes are n \div 2 passes and then the rest.
RECURSIVE SeparationPasses(_, _, _)
SeparationPasses(cfg, s, n) ==
  IF s.stable \/ n = 0 THEN s
  ELSE IF n = 1
  THEN LET next == SeparationPass(cfg, [i |-> 1, candidates |-> s.candidates])
       IN  [candidates |-> next, stable |-> next = s.candidates]
  ELSE SeparationPasses(cfg, SeparationPasses(cfg, s, n \div 2), n - n \div 2)

ApplySpatialSeparation(cfg, candidates) ==
  SeparationPasses(cfg, [candidates |-> candidates, stable |-> FALSE], 50).candidates

Area(room) == room.width * room.height

\* candidates.sort((a, b) => b.width * b.height - a.width * a.height): the
\* sort is stable, so the place of candidate i is one more than the number
\* of candidates that are larger, or as large and earlier.
SortByArea(candidates) ==
  LET n == Len(candidates)
      place(i) == 1 + Cardinality({j \in 1..n :
                        \/ Area(candidates[j]) > Area(candidates[i])
                        \/ Area(candidates[j]) = Area(candidates[i]) /\ j < i})
  IN  [k \in 1..n |-> candidates[CHOOSE i \in 1..n : place(i) = k]]

\* calculateDistance(centre of a, centre of b) < min(width, height) * 0.2 for
\* the centres x + width / 2: with doubled differences (dx2, dy2) the
\* distance is sqrt(dx2^2 + dy2^2) / 2.
TooClose(cfg, a, b) ==
  LET dx2 == (2 * a.x + a.width) - (2 * b.x + b.width)
      dy2 == (2 * a.y + a.height) - (2 * b.y + b.height)
      m == Min(cfg.dungeonWidth, cfg.dungeonHeight)
  IN  25 * (dx2 * dx2 + dy2 * dy2) < 4 * m * m

\* The first loop of selectBestRooms on the state s = [k, selected].
RECURSIVE SelectDistributed(_, _, _, _)
SelectDistributed(cfg, candidates, targetCount, s) ==
  IF s.k > Len(candidates) \/ Len(s.selected) >= targetCount THEN s.selected
  ELSE LET tooClose == \E e \in 1..Len(s.selected) :
                          TooClose(cfg, candidates[s.k], s.selected[e])
       IN  SelectDistributed(cfg, candidates, targetCount,
             [k |-> s.k + 1,
              selected |-> IF tooClose THEN s.selected
                           ELSE Append(s.selected, candidates[s.k])])

\* A faulty pass of the fill loop: only the first candidate is looked at.
FillStepFirst(candidates, selected) ==
  IF \E e \in 1..Len(selected) : selected[e].id = candidates[1].id
  THEN selected
  ELSE Append(selected, candidates[1])

\* One pass of the fill loop of selectBestRooms: the first candidate not
\* yet selected is pushed.
FillStep(candidates, selected) ==
  LET ids == {selected[e].id : e \in 1..Len(selected)}
      free == {k \in 1..Len(candidates) : candidates[k].id \notin ids}
      first == CHOOSE k \in free : \A l \in free : k <= l
  IN  Append(selected, candidates[first])

\* The fill loop of selectBestRooms
RECURSIVE FillSelected(_, _, _)
FillSelected(candidates, targetCount, selected) ==
  IF ~(Len(selected) < targetCount /\ Len(selected) < Len(candidates))
  THEN selected
  ELSE FillSelected(candidates, targetCount, FillStep(candidates, selected))

\* A faulty selectBestRooms: every candidate is kept.
SelectEveryRoom(cfg, candidates, targetCount) == SortByArea(candidates)

SelectBestRooms(cfg, candidates, targetCount) ==
  LET sorted == SortByArea(candidates)
  IN  FillSelected(sorted, targetCount,
                   SelectDistributed(cfg, sorted, targetCount,
                                     [k |-> 1, selected |-> <<>>]))

RemoveAt(seq, k) == SubSeq(seq, 1, k - 1) \o SubSeq(seq, k + 1, Len(seq))

\* A faulty condition of attemptRoomMerge: any overlap on both axes.
CanMergeAnyOverlap(room1, room2) ==
  LET overlap == CalculateOverlap(room1, room2)
  IN  overlap.x > 0 /\ overlap.y > 0

\* The condition of attemptRoomMerge: overlap.x < min(widths) * 0.7 and the
\* same for y.
CanMerge(room1, room2) ==
  LET overlap == CalculateOverlap(room1, room2)
  IN  /\ overlap.x > 0
      /\ overlap.y > 0
      /\ 10 * overlap.x < 7 * Min(room1.width, room2.width)
      /\ 10 * overlap.y < 7 * Min(room1.height, room2.height)

MergedRoom(room1, room2) ==
  LET minX == Min(room1.x, room2.x)
      minY == Min(room1.y, room2.y)
      maxX == Max(room1.x + room1.width, room2.x + room2.width)
      maxY == Max(room1.y + room1.height, room2.y + room2.height)
  IN  [room1 EXCEPT !.x = minX, !.y = minY,
                    !.width = maxX - minX, !.height = maxY - minY]

\* attemptRoomMerge(this.rooms[i], this.rooms[j]) on the room list
AttemptRoomMerge(rooms, i, j) ==
  IF CanMerge(rooms[i], rooms[j])
  THEN RemoveAt([rooms EXCEPT ![i] = MergedRoom(rooms[i], rooms[j])], j)
  ELSE rooms

\* The loops of applyControlledOverlapping on the state s = [rng, rooms, i, j];
\* i and j are the 1-based loop indexes, both bounded by the current length
\* of this.rooms.
RECURSIVE OverlapLoop(_, _)
OverlapLoop(cfg, s) ==
  IF s.i > Len(s.rooms) THEN s
  ELSE IF s.j > Len(s.rooms)
  THEN OverlapLoop(cfg, [s EXCEPT !.i = s.i + 1, !.j = s.i + 2])
  ELSE LET b == RandomBool(s.rng, cfg.overlapChance * cfg.complexityLevel)
       IN  OverlapLoop(cfg,
             [rng |-> b.rng,
              rooms |-> IF b.val THEN AttemptRoomMerge(s.rooms, s.i, s.j)
                        ELSE s.rooms,
              i |-> s.i, j |-> s.j + 1,
              drawn |-> Append(s.drawn,
                               {s.rooms[s.i].id, s.rooms[s.j].id})])

ApplyControlledOverlapping(cfg, seed, rooms) ==
  IF cfg.overlapChance <= 0
  THEN [rng |-> seed, rooms |-> rooms, drawn |-> <<>>]
  ELSE LET s == OverlapLoop(cfg, [rng |-> seed, rooms |-> rooms, i |-> 1,
                                  j |-> 2, drawn |-> <<>>])
       IN  [rng |-> s.rng, rooms |-> s.rooms, drawn |-> s.drawn]

(***************************************************************************)
(* Tilemap                                                                 *)
(***************************************************************************)
IsValidTile(cfg, x, y) ==
  x >= 0 /\ x < cfg.dungeonWidth /\ y >= 0 /\ y < cfg.dungeonHeight

InitializeTilemap(cfg) ==
  [y \in 0..(cfg.dungeonHeight - 1) |-> [x \in 0..(cfg.dungeonWidth - 1) |-> 0]]

InRoom(room, x, y) ==
  /\ room.x <= x /\ x < room.x + room.width
  /\ room.y <= y /\ y < room.y + room.height

\* carveRooms: every valid tile inside a room of the list becomes Floor
CarveRooms(cfg, tiles, rooms) ==
  [y \in DOMAIN tiles |->
     [x \in DOMAIN tiles[y] |->
        IF \E k \in 1..Len(rooms) : InRoom(rooms[k], x, y) THEN 1
        ELSE tiles[y][x]]]

(***************************************************************************)
(* Connectivity                                                            *)
(***************************************************************************)
GetRoomCenter(room) ==
  [x |-> room.x + room.width \div 2, y |-> room.y + room.height \div 2]

\* The square of calculateDistance(p1, p2); distances of integer points are
\* compared by their squares.
Distance2(p1, p2) ==
  (p1.x - p2.x) * (p1.x - p2.x) + (p1.y - p2.y) * (p1.y - p2.y)

InSeq(seq, v) == \E k \in 1..Len(seq) : seq[k] = v

\* A faulty search: the first pair in loop order, whatever its distance.
ShortestConnectionFirstPair(rooms, connected) ==
  LET to == CHOOSE u \in 1..Len(rooms) :
              /\ ~InSeq(connected, u)
              /\ \A v \in 1..(u - 1) : InSeq(connected, v)
  IN  <<[from |-> connected[1], to |-> to,
         distance |-> Distance2(GetRoomCenter(rooms[connected[1]]),
                                GetRoomCenter(rooms[to]))]>>

\* The two nested loops of generateMinimumSpanningTree: connected holds room
\* indexes in insertion order; c is the position in connected and u the room
\* index.  The loops keep the first pair, in loop order, at the shortest
\* distance.  <<>> when no pair is left.
ShortestConnection(rooms, connected) ==
  LET pairs == {p \in (1..Len(connected)) \X (1..Len(rooms)) :
                  ~InSeq(connected, p[2])}
      d(p) == Distance2(GetRoomCenter(rooms[connected[p[1]]]),
                        GetRoomCenter(rooms[p[2]]))
      earlier(p, q) == p[1] < q[1] \/ (p[1] = q[1] /\ p[2] <= q[2])
  IN  IF pairs = {} THEN <<>>
      ELSE LET p == CHOOSE p \in pairs :
                      \A q \in pairs : d(p) < d(q) \/ (d(p) = d(q) /\ earlier(p, q))
           IN  <<[from |-> connected[p[1]], to |-> p[2], distance |-> d(p)]>>

\* A faulty link: only room1 lists room2.
LinkOneWay(rooms, a, b) ==
  [rooms EXCEPT ![a].connectedTo = Append(@, rooms[b].id)]

\* room1.connectedTo.push(room2.id); room2.connectedTo.push(room1.id)
Link(rooms, a, b) ==
  [rooms EXCEPT ![a].connectedTo = Append(@, rooms[b].id),
                ![b].connectedTo = Append(@, rooms[a].id)]

\* A faulty spanning tree loop: it stops one room early.
RECURSIVE SpanningTreeLoopShort(_)
SpanningTreeLoopShort(s) ==
  IF ~(Len(s.connected) + 1 < Len(s.rooms)) THEN s
  ELSE LET best == ShortestConnection(s.rooms, s.connected)
       IN  SpanningTreeLoopShort(
             [rooms |-> Link(s.rooms, best[1].from, best[1].to),
              connected |-> Append(s.connected, best[1].to),
              connections |-> Append(s.connections, best[1])])

\* One pass of the while loop of generateMinimumSpanningTree on the state
\* s = [rooms, connected, connections]: nothing changes when no connection
\* is found.
SpanStep(s) ==
  LET best == ShortestConnection(s.rooms, s.connected)
  IN  IF best = <<>> THEN s
      ELSE [rooms |-> Link(s.rooms, best[1].from, best[1].to),
            connected |-> Append(s.connected, best[1].to),
            connections |-> Append(s.connections, best[1])]

\* The while loop of generateMinimumSpanningTree
RECURSIVE SpanningTreeLoop(_)
SpanningTreeLoop(s) ==
  IF ~(Len(s.connected) < Len(s.rooms)) THEN s
  ELSE SpanningTreeLoop(SpanStep(s))

RoomsConnections(s) == [rooms |-> s.rooms, connections |-> s.connections]

GenerateMinimumSpanningTree(rooms) ==
  IF Len(rooms) = 0 THEN [rooms |-> rooms, connections |-> <<>>]
  ELSE RoomsConnections(SpanningTreeLoop([rooms |-> rooms, connected |-> <<1>>,
                                          connections |-> <<>>]))

\* The loop of addComplexityConnections on the state
\* s = [rng, rooms, connections, i].
\* A faulty loop: rooms already connected are connected again.
RECURSIVE ComplexityLoopAgain(_, _)
ComplexityLoopAgain(s, additionalConnections) ==
  IF s.i >= additionalConnections THEN s
  ELSE LET r1 == RandomInt(s.rng, 0, Len(s.rooms) - 1)
           r2 == RandomInt(r1.rng, 0, Len(s.rooms) - 1)
           a == r1.val + 1
           b == r2.val + 1
       IN  ComplexityLoopAgain(
             [rng |-> r2.rng,
              rooms |-> IF a # b THEN Link(s.rooms, a, b) ELSE s.rooms,
              connections |-> s.connections,
              i |-> s.i + 1, threw |-> FALSE],
             additionalConnections)

\* this.rooms[index] is undefined when the index drawn is not one of the
\* array.  Two undefined rooms are identical and the attempt is skipped;
\* with one undefined room, reading its connectedTo or its id throws a
\* TypeError and the loop is left (threw).
RECURSIVE ComplexityLoop(_, _)
ComplexityLoop(s, additionalConnections) ==
  IF s.threw \/ s.i >= additionalConnections THEN s
  ELSE LET r1 == RandomInt(s.rng, 0, Len(s.rooms) - 1)
           r2 == RandomInt(r1.rng, 0, Len(s.rooms) - 1)
           a == r1.val + 1
           b == r2.val + 1
           undefined1 == a \notin 1..Len(s.rooms)
           undefined2 == b \notin 1..Len(s.rooms)
           add == /\ ~undefined1 /\ ~undefined2
                  /\ a # b /\ ~InSeq(s.rooms[a].connectedTo, s.rooms[b].id)
       IN  ComplexityLoop(
             [rng |-> r2.rng,
              rooms |-> IF add THEN Link(s.rooms, a, b) ELSE s.rooms,
              connections |->
                IF add
                THEN Append(s.connections,
                            [from |-> a, to |-> b,
                             distance |-> Distance2(GetRoomCenter(s.rooms[a]),
                                                    GetRoomCenter(s.rooms[b]))])
                ELSE s.connections,
              i |-> s.i + 1,
              threw |-> undefined1 # undefined2],
             additionalConnections)

RngRoomsConnections(s) ==
  [rng |-> s.rng, rooms |-> s.rooms, connections |-> s.connections,
   threw |-> s.threw]

\* A faulty addComplexityConnections: one attempt for each room, whatever
\* the complexityLevel.
AddComplexityConnectionsPerRoom(cfg, seed, tree) ==
  RngRoomsConnections(
    ComplexityLoop([rng |-> seed, rooms |-> tree.rooms,
                    connections |-> tree.connections, i |-> 0,
                    threw |-> FALSE],
                   Len(tree.rooms)))

\* addComplexityConnections(connections) for tree = [rooms, connections];
\* Math.floor(this.rooms.length * complexityLevel), complexityLevel in tenths
AddComplexityConnections(cfg, seed, tree) ==
  RngRoomsConnections(
    ComplexityLoop([rng |-> seed, rooms |-> tree.rooms,
                    connections |-> tree.connections, i |-> 0,
                    threw |-> FALSE],
                   (Len(tree.rooms) * cfg.complexityLevel) \div 10))

(***************************************************************************)
(* Pathfinding.  g, h and f are kept doubled.                              *)
(***************************************************************************)
Heuristic(a, b) == 2 * (Abs(a.x - b.x) + Abs(a.y - b.y))

\* The offsets of the corridor footprint: -halfWidth .. width - halfWidth - 1
Footprint(cfg) ==
  LET width == cfg.corridorWidth
      halfWidth == (width - 1) \div 2
  IN  (-halfWidth)..(width - halfWidth - 1)

IsValidPathTile(cfg, x, y) ==
  \A dy \in Footprint(cfg) : \A dx \in Footprint(cfg) :
     IsValidTile(cfg, x + dx, y + dy)

\* getNeighbors: up, right, down, left
Directions == <<[x |-> 0, y |-> -1], [x |-> 1, y |-> 0],
                [x |-> 0, y |-> 1], [x |-> -1, y |-> 0]>>

\* The scan of the open set for the lowest f: the first of the lowest.
LowestF(openSet) ==
  CHOOSE i \in 1..Len(openSet) :
    \A j \in 1..Len(openSet) :
       openSet[i].f < openSet[j].f \/ (openSet[i].f = openSet[j].f /\ i <= j)

\* The loop over the neighbours of current in findPath, on the state
\* s = [k, openSet]; visited is the state after neighbour k, and is bound
\* as a value before the next neighbour is visited.
RECURSIVE VisitNeighbors(_, _, _, _, _, _)
VisitNeighbors(cfg, tiles, end, current, closedSet, s) ==
  IF s.k > Len(Directions) THEN s.openSet
  ELSE LET nx == current.x + Directions[s.k].x
           ny == current.y + Directions[s.k].y
           openSet == s.openSet
           moveCost == IF tiles[ny][nx] = 1 THEN 1 ELSE 2
           tentativeG == current.g + moveCost
           found == {e \in 1..Len(openSet) :
                       openSet[e].x = nx /\ openSet[e].y = ny}
           h == Heuristic([x |-> nx, y |-> ny], end)
           node == [x |-> nx, y |-> ny, g |-> tentativeG, h |-> h,
                    f |-> tentativeG + h,
                    parent |-> <<current.x, current.y>>]
           visited ==
             IF <<nx, ny>> \in closedSet \/ ~IsValidPathTile(cfg, nx, ny)
             THEN [s EXCEPT !.k = s.k + 1]
             ELSE [k |-> s.k + 1,
                   openSet |->
                     IF found = {} THEN Append(openSet, node)
                     ELSE LET e == CHOOSE e \in found : TRUE
                          IN  IF tentativeG < openSet[e].g
                              THEN [openSet EXCEPT ![e] = node]
                              ELSE openSet]
       IN  CHOOSE after \in {VisitNeighbors(cfg, tiles, end, current,
                                            closedSet, next) :
                               next \in {visited}} : TRUE

\* A faulty reconstructPath: the start is left out.
RECURSIVE ReconstructPathAfterStart(_, _)
ReconstructPathAfterStart(parents, s) ==
  IF parents[s.at] = <<>> THEN s.path
  ELSE ReconstructPathAfterStart(parents,
         [at |-> parents[s.at],
          path |-> <<[x |-> s.at[1], y |-> s.at[2]]>> \o s.path])

\* reconstructPath: parent links are followed from the goal; parents maps
\* every closed coordinate to the coordinate of its parent, <<>> at the
\* start.  The state is s = [at, path].
RECURSIVE ReconstructPath(_, _)
ReconstructPath(parents, s) ==
  LET longer == <<[x |-> s.at[1], y |-> s.at[2]]>> \o s.path
  IN  IF parents[s.at] = <<>> THEN longer
      ELSE ReconstructPath(parents, [at |-> parents[s.at], path |-> longer])

\* One iteration of the while loop of findPath on the state
\* s = [openSet, closedSet, parents, path, done].
SearchStep(cfg, tiles, end, s) ==
  IF s.done THEN s
  ELSE IF s.openSet = <<>> THEN [s EXCEPT !.done = TRUE]
  ELSE LET currentIndex == LowestF(s.openSet)
           current == s.openSet[currentIndex]
           key == <<current.x, current.y>>
           closed == s.closedSet \cup {key}
           links == (key :> current.parent) @@ s.parents
       IN  IF current.x = end.x /\ current.y = end.y
           THEN [s EXCEPT !.path = ReconstructPath(links, [at |-> key, path |-> <<>>]),
                          !.done = TRUE]
           ELSE [openSet |-> VisitNeighbors(cfg, tiles, end, current, closed,
                              [k |-> 1,
                               openSet |-> RemoveAt(s.openSet, currentIndex)]),
                 closedSet |-> closed, parents |-> links,
                 path |-> <<>>, done |-> FALSE]

\* n iterations of the while loop: n \div 2 of them and then the rest.
RECURSIVE SearchSteps(_, _, _, _, _)
SearchSteps(cfg, tiles, end, s, n) ==
  IF s.done \/ n = 0 THEN s
  ELSE IF n = 1 THEN SearchStep(cfg, tiles, end, s)
  ELSE SearchSteps(cfg, tiles, end,
                   SearchSteps(cfg, tiles, end, s, n \div 2), n - n \div 2)

\* The state of findPath before the while loop: the start node is open.
OpenAt(start, end) ==
  [openSet |-> <<[x |-> start.x, y |-> start.y, g |-> 0,
                  h |-> Heuristic(start, end),
                  f |-> Heuristic(start, end), parent |-> <<>>]>>,
   closedSet |-> {}, parents |-> <<>>, path |-> <<>>, done |-> FALSE]

\* findPath.  Every iteration closes a coordinate that was not closed: the
\* start or a tile of the map, so the loop ends within width * height + 2
\* iterations.
FindPath(cfg, tiles, start, end) ==
  SearchSteps(cfg, tiles, end, OpenAt(start, end),
              cfg.dungeonWidth * cfg.dungeonHeight + 2).path

\* A faulty carveCorridor: halfWidth is Math.floor(width / 2).
CarveCorridorCentred(cfg, tiles, path) ==
  LET halfWidth == cfg.corridorWidth \div 2
      block == (-halfWidth)..(cfg.corridorWidth - halfWidth - 1)
  IN  [y \in DOMAIN tiles |->
         [x \in DOMAIN tiles[y] |->
            IF \E k \in 1..Len(path) :
                 (x - path[k].x) \in block /\ (y - path[k].y) \in block
            THEN 1 ELSE tiles[y][x]]]

\* carveCorridor: the footprint of every path point, where valid, is Floor
CarveCorridor(cfg, tiles, path) ==
  [y \in DOMAIN tiles |->
     [x \in DOMAIN tiles[y] |->
        IF \E k \in 1..Len(path) :
             /\ (x - path[k].x) \in Footprint(cfg)
             /\ (y - path[k].y) \in Footprint(cfg)
        THEN 1 ELSE tiles[y][x]]]

CorridorId(fromRoom, toRoom) == "corridor_" \o fromRoom.id \o "_" \o toRoom.id

\* A faulty generateCorridor: a Corridor entity for every path that is not
\* empty.
AddCorridorAlways(cfg, rooms, tiles, from, to, path) ==
  LET start == GetRoomCenter(rooms[from])
      end == GetRoomCenter(rooms[to])
      corridorRoom ==
        [id |-> CorridorId(rooms[from], rooms[to]),
         x |-> Min(start.x, end.x), y |-> Min(start.y, end.y),
         width |-> Abs(end.x - start.x) + cfg.corridorWidth,
         height |-> Abs(end.y - start.y) + cfg.corridorWidth,
         type |-> "corridor",
         connectedTo |-> <<rooms[from].id, rooms[to].id>>]
  IN  IF Len(path) > 0
      THEN [rooms |-> Append(rooms, corridorRoom),
            tiles |-> CarveCorridor(cfg, tiles, path)]
      ELSE [rooms |-> rooms, tiles |-> tiles]

\* A faulty generateCorridor: a path of 4 points is registered too.
AddCorridorFromFour(cfg, rooms, tiles, from, to, path) ==
  LET start == GetRoomCenter(rooms[from])
      end == GetRoomCenter(rooms[to])
      corridorRoom ==
        [id |-> CorridorId(rooms[from], rooms[to]),
         x |-> Min(start.x, end.x), y |-> Min(start.y, end.y),
         width |-> Abs(end.x - start.x) + cfg.corridorWidth,
         height |-> Abs(end.y - start.y) + cfg.corridorWidth,
         type |-> "corridor",
         connectedTo |-> <<rooms[from].id, rooms[to].id>>]
  IN  IF Len(path) > 0
      THEN [rooms |-> IF Len(path) >= 4 THEN Append(rooms, corridorRoom) ELSE rooms,
            tiles |-> CarveCorridor(cfg, tiles, path)]
      ELSE [rooms |-> rooms, tiles |-> tiles]

\* generateCorridor after findPath has returned path.
AddCorridor(cfg, rooms, tiles, from, to, path) ==
  LET start == GetRoomCenter(rooms[from])
      end == GetRoomCenter(rooms[to])
      corridorRoom ==
        [id |-> CorridorId(rooms[from], rooms[to]),
         x |-> Min(start.x, end.x), y |-> Min(start.y, end.y),
         width |-> Abs(end.x - start.x) + cfg.corridorWidth,
         height |-> Abs(end.y - start.y) + cfg.corridorWidth,
         type |-> "corridor",
         connectedTo |-> <<rooms[from].id, rooms[to].id>>]
  IN  IF Len(path) > 0
      THEN [rooms |-> IF Len(path) > 4 THEN Append(rooms, corridorRoom) ELSE rooms,
            tiles |-> CarveCorridor(cfg, tiles, path)]
      ELSE [rooms |-> rooms, tiles |-> tiles]

\* generateCorridor on the pair (rooms, tiles)
GenerateCorridor(cfg, rooms, tiles, from, to) ==
  AddCorridor(cfg, rooms, tiles, from, to,
              FindPath(cfg, tiles, GetRoomCenter(rooms[from]),
                       GetRoomCenter(rooms[to])))

\* The state of the loop of connectRooms after the corridor of connection
\* s.k has been generated as g.
AfterCorridor(s, g) ==
  [s EXCEPT !.k = s.k + 1, !.rooms = g.rooms, !.tiles = g.tiles]

\* The loop of connectRooms over the connections, on the state
\* s = [k, rng, rooms, tiles, threw]; it is not entered when
\* addComplexityConnections threw.
RECURSIVE CorridorLoop(_, _, _)
CorridorLoop(cfg, connections, s) ==
  IF s.threw \/ s.k > Len(connections) THEN s
  ELSE CorridorLoop(cfg, connections,
         AfterCorridor(s, GenerateCorridor(cfg, s.rooms, s.tiles,
                                           connections[s.k].from,
                                           connections[s.k].to)))

\* The corridors of the connections of more = [rng, rooms, connections].
Corridors(cfg, tiles, more) ==
  CorridorLoop(cfg, more.connections,
               [k |-> 1, rng |-> more.rng, rooms |-> more.rooms,
                tiles |-> tiles, threw |-> more.threw])

RngRoomsTiles(s) ==
  [rng |-> s.rng, rooms |-> s.rooms, tiles |-> s.tiles, threw |-> s.threw]

\* connectRooms
ConnectRooms(cfg, seed, rooms, tiles) ==
  IF Len(rooms) < 2
  THEN [rng |-> seed, rooms |-> rooms, tiles |-> tiles, threw |-> FALSE]
  ELSE RngRoomsTiles(
         Corridors(cfg, tiles,
                   AddComplexityConnections(cfg, seed,
                                            GenerateMinimumSpanningTree(rooms))))

(***************************************************************************)
(* Doors                                                                   *)
(***************************************************************************)
IsValidDoorLocation(cfg, tiles, point) ==
  /\ IsValidTile(cfg, point.x, point.y)
  /\ \E k \in 1..Len(Directions) :
       LET adjX == point.x + Directions[k].x
           adjY == point.y + Directions[k].y
       IN  IsValidTile(cfg, adjX, adjY) /\ tiles[adjY][adjX] = 1

\* The two loops of findDoorCandidates, before the filter: the top and
\* bottom walls pairwise for each x, then the left and right walls pairwise
\* for each y, corners excluded.
WallPoints(room) ==
  LET nx == Max(0, room.width - 2)
      ny == Max(0, room.height - 2)
  IN  [n \in 1..(2 * nx) |->
         [x |-> room.x + (n + 1) \div 2,
          y |-> IF n % 2 = 1 THEN room.y ELSE room.y + room.height - 1]]
      \o
      [n \in 1..(2 * ny) |->
         [x |-> IF n % 2 = 1 THEN room.x ELSE room.x + room.width - 1,
          y |-> room.y + (n + 1) \div 2]]

FindDoorCandidates(cfg, tiles, room) ==
  SelectSeq(WallPoints(room),
            LAMBDA point : IsValidDoorLocation(cfg, tiles, point))

\* findBestDoorLocation: the first candidate at the shortest distance from
\* the centre of room2; <<>> stands for null.
FindBestDoorLocation(room2, candidates) ==
  LET center == GetRoomCenter(room2)
      d(k) == Distance2(candidates[k], center)
  IN  IF candidates = <<>> THEN <<>>
      ELSE <<candidates[CHOOSE i \in 1..Len(candidates) :
                          \A j \in 1..Len(candidates) :
                             d(i) < d(j) \/ (d(i) = d(j) /\ i <= j)]>>

SetTile(tiles, x, y, v) == [tiles EXCEPT ![y][x] = v]

\* The loop over room.connectedTo in placeDoors, for the room at index r,
\* on the state s = [c, tiles, doors].
RECURSIVE DoorsOfRoom(_, _, _, _)
DoorsOfRoom(rooms, r, doorCandidates, s) ==
  IF s.c > Len(rooms[r].connectedTo) THEN s
  ELSE LET found == {k \in 1..Len(rooms) : rooms[k].id = rooms[r].connectedTo[s.c]}
           connectedRoom == rooms[CHOOSE k \in found : \A l \in found : k <= l]
           doorLocation == IF found = {} THEN <<>>
                           ELSE FindBestDoorLocation(connectedRoom, doorCandidates)
       IN  IF doorLocation = <<>>
           THEN DoorsOfRoom(rooms, r, doorCandidates, [s EXCEPT !.c = s.c + 1])
           ELSE DoorsOfRoom(rooms, r, doorCandidates,
                  [c |-> s.c + 1,
                   tiles |-> SetTile(s.tiles, doorLocation[1].x, doorLocation[1].y, 2),
                   doors |-> Append(s.doors,
                               [x |-> doorLocation[1].x, y |-> doorLocation[1].y,
                                connectsRooms |-> <<rooms[r].id, connectedRoom.id>>])])

\* The state of the loop of placeDoors after the doors of room s.r have been
\* placed as d.
AfterRoom(s, d) == [r |-> s.r + 1, tiles |-> d.tiles, doors |-> d.doors]

\* A faulty placeDoors loop: the rooms of Corridor kind get doors too.
RECURSIVE PlaceDoorsLoopAllKinds(_, _, _)
PlaceDoorsLoopAllKinds(cfg, rooms, s) ==
  IF s.r > Len(rooms) THEN s
  ELSE PlaceDoorsLoopAllKinds(cfg, rooms,
         AfterRoom(s, DoorsOfRoom(rooms, s.r,
                                  FindDoorCandidates(cfg, s.tiles, rooms[s.r]),
                                  [c |-> 1, tiles |-> s.tiles,
                                   doors |-> s.doors])))

\* The loop of placeDoors over this.rooms, on the state s = [r, tiles, doors].
RECURSIVE PlaceDoorsLoop(_, _, _)
PlaceDoorsLoop(cfg, rooms, s) ==
  IF s.r > Len(rooms) THEN s
  ELSE IF rooms[s.r].type # "room"
  THEN PlaceDoorsLoop(cfg, rooms, [s EXCEPT !.r = s.r + 1])
  ELSE PlaceDoorsLoop(cfg, rooms,
         AfterRoom(s, DoorsOfRoom(rooms, s.r,
                                  FindDoorCandidates(cfg, s.tiles, rooms[s.r]),
                                  [c |-> 1, tiles |-> s.tiles,
                                   doors |-> s.doors])))

TilesDoors(s) == [tiles |-> s.tiles, doors |-> s.doors]

PlaceDoors(cfg, rooms, tiles) ==
  TilesDoors(PlaceDoorsLoop(cfg, rooms,
                            [r |-> 1, tiles |-> tiles, doors |-> <<>>]))

(***************************************************************************)
(* Room generation                                                         *)
(***************************************************************************)
\* generateRooms after the candidates have been made: separation, selection
\* of targetCount rooms and overlapping
SelectFrom(cfg, targetCount, made) ==
  ApplyControlledOverlapping(cfg, made.rng,
    SelectBestRooms(cfg, ApplySpatialSeparation(cfg, made.rooms), targetCount))

\* generateRooms after roomCount has been drawn: three candidates per room
SelectAndOverlap(cfg, roomCount) ==
  SelectFrom(cfg, roomCount.val,
             Candidates(cfg, [rng |-> roomCount.rng, rooms |-> <<>>],
                        roomCount.val * 3))

\* generateRooms up to and including applyControlledOverlapping: the new
\* state of the random source and the new this.rooms
GenerateRooms(cfg, seed) ==
  SelectAndOverlap(cfg, RandomInt(seed, cfg.minRooms, cfg.maxRooms))

(***************************************************************************)
(* The generator and its caller.  Room, door and tilemap objects live in   *)
(* heap and are held by address, so that two holders of one object see     *)
(* each other's writes.  The arrays this.rooms, this.doors and             *)
(* this.baseRooms and the arrays of a returned DungeonData are sequences   *)
(* of addresses: each is built anew wherever the code builds it.  A        *)
(* tilemap (the outer array and its rows, which the code always creates    *)
(* and copies together) is one object [tiles |-> grid].                    *)
(***************************************************************************)
VARIABLES
  config,      \* this.config
  rng,         \* this.rng.seed
  rooms,       \* this.rooms
  tilemap,     \* this.tilemap: <<>> or <<address>>
  doors,       \* this.doors
  baseRooms,   \* this.baseRooms
  heap,        \* the objects, by address 1..Len(heap)
  snapshots,   \* the DungeonData values the caller holds, in order of return
  calls,       \* the number of calls made on the generator
  hist,        \* history: what was returned and saved, and the last step
  scene,       \* corridorWidth and currentComplexity of the Scene3 that
               \* holds the generator; <<>> where there is no scene
  parts        \* a room list and a tilemap that private methods are
               \* applied to one by one; <<>> where generate runs whole

vars == <<config, rng, rooms, tilemap, doors, baseRooms, heap, snapshots,
          calls, hist, scene, parts>>

\* The fields of the generator, its caller and its scene
whole == <<config, rng, rooms, tilemap, doors, baseRooms, heap, snapshots,
           calls, hist, scene>>

Deref(h, addresses) == [k \in 1..Len(addresses) |-> h[addresses[k]]]

\* The objects become new objects of the heap h.
Alloc(h, objects) ==
  [heap |-> h \o objects, at |-> [k \in 1..Len(objects) |-> Len(h) + k]]

\* The objects at the addresses are overwritten with the values.
Store(h, addresses, values) ==
  [a \in 1..Len(h) |->
     IF \E k \in 1..Len(addresses) : addresses[k] = a
     THEN values[CHOOSE k \in 1..Len(addresses) : addresses[k] = a]
     ELSE h[a]]

\* A faulty saveBaseRooms: the cache holds the objects of this.rooms
\* themselves.
SaveBaseRoomsShared(h, roomAddresses) ==
  [heap |-> h,
   baseRooms |-> SelectSeq(roomAddresses, LAMBDA a : h[a].type = "room")]

\* A faulty saveBaseRooms: the filter keeps the Corridor kind.
SaveBaseRoomsOfCorridors(h, roomAddresses) ==
  LET kept == SelectSeq(roomAddresses, LAMBDA a : h[a].type = "corridor")
      made == Alloc(h, [k \in 1..Len(kept) |->
                          [h[kept[k]] EXCEPT !.connectedTo = <<>>]])
  IN  [heap |-> made.heap, baseRooms |-> made.at]

\* saveBaseRooms: new objects, each a copy of a Room-kind room of this.rooms
\* with an empty connectedTo
SaveBaseRooms(h, roomAddresses) ==
  LET kept == SelectSeq(roomAddresses, LAMBDA a : h[a].type = "room")
      made == Alloc(h, [k \in 1..Len(kept) |->
                          [h[kept[k]] EXCEPT !.connectedTo = <<>>]])
  IN  [heap |-> made.heap, baseRooms |-> made.at]

\* restoreBaseRooms before carveRooms: new objects, each a copy of a base
\* room with an empty connectedTo
RestoreBaseRooms(h, base) ==
  LET made == Alloc(h, [k \in 1..Len(base) |->
                          [h[base[k]] EXCEPT !.connectedTo = <<>>]])
  IN  [heap |-> made.heap, rooms |-> made.at]

\* A faulty return statement: width and height of the metadata are swapped.
ReturnDataSwapped(h, cfg, roomAddresses, tilemapAddress, doorAddresses) ==
  LET copy == Alloc(h, <<[tiles |-> h[tilemapAddress].tiles]>>)
  IN  [heap |-> copy.heap,
       data |-> [metadata |->
                   [width |-> cfg.dungeonHeight, height |-> cfg.dungeonWidth,
                    roomCount |-> Len(SelectSeq(roomAddresses,
                                        LAMBDA a : h[a].type = "room")),
                    generationSeed |-> cfg.seed],
                 rooms |-> roomAddresses,
                 tilemap |-> copy.at[1],
                 doors |-> doorAddresses]]

\* The return statement of generate: new arrays with the elements of
\* this.rooms and this.doors, and a copy of the tilemap row by row.
ReturnData(h, cfg, roomAddresses, tilemapAddress, doorAddresses) ==
  LET copy == Alloc(h, <<[tiles |-> h[tilemapAddress].tiles]>>)
  IN  [heap |-> copy.heap,
       data |-> [metadata |->
                   [width |-> cfg.dungeonWidth, height |-> cfg.dungeonHeight,
                    roomCount |-> Len(SelectSeq(roomAddresses,
                                        LAMBDA a : h[a].type = "room")),
                    generationSeed |-> cfg.seed],
                 rooms |-> roomAddresses,
                 tilemap |-> copy.at[1],
                 doors |-> doorAddresses]]

\* What a holder of the DungeonData d reads from it in the heap h.
Contents(h, d) ==
  [metadata |-> d.metadata, rooms |-> Deref(h, d.rooms),
   tilemap |-> h[d.tilemap].tiles, doors |-> Deref(h, d.doors)]

\* A faulty generate: the new rooms are not saved.
FreshRoomsUnsaved(h, g) ==
  LET a == Alloc(h, g.rooms)
  IN  [rng |-> g.rng, heap |-> a.heap, rooms |-> a.at, baseRooms |-> <<>>]

\* generateRooms and saveBaseRooms: the rooms g.rooms become new objects of
\* this.rooms, and their copies the cache.
FreshRooms(h, g) ==
  LET a == Alloc(h, g.rooms)
      b == SaveBaseRooms(a.heap, a.at)
  IN  [rng |-> g.rng, heap |-> b.heap, rooms |-> a.at,
       baseRooms |-> b.baseRooms]

\* restoreBaseRooms, which draws nothing from the random source
RestoredRooms(h, seed, base) ==
  LET r == RestoreBaseRooms(h, base)
  IN  [rng |-> seed, heap |-> r.heap, rooms |-> r.rooms, baseRooms |-> base]

\* initializeTilemap, carveRooms and connectRooms on the rooms of made
CarveAndConnect(cfg, made) ==
  LET values == Deref(made.heap, made.rooms)
  IN  ConnectRooms(cfg, made.rng, values,
                   CarveRooms(cfg, InitializeTilemap(cfg), values))

\* The fields and the heap once placeDoors has returned placed: connectRooms
\* has changed the rooms of made in place and pushed the corridors after
\* them; the doors and the tilemap are new objects.
FieldsAfter(made, connected, placed) ==
  LET linked == Store(made.heap, made.rooms,
                      SubSeq(connected.rooms, 1, Len(made.rooms)))
      corridors == Alloc(linked, SubSeq(connected.rooms, Len(made.rooms) + 1,
                                        Len(connected.rooms)))
      doorObjects == Alloc(corridors.heap, placed.doors)
      grid == Alloc(doorObjects.heap, <<[tiles |-> placed.tiles]>>)
  IN  [rng |-> connected.rng, heap |-> grid.heap,
       rooms |-> made.rooms \o corridors.at, tilemap |-> grid.at,
       doors |-> doorObjects.at, baseRooms |-> made.baseRooms,
       threw |-> connected.threw]

\* placeDoors on what connectRooms left; it is not reached when
\* connectRooms threw
WithDoors(cfg, made, connected) ==
  FieldsAfter(made, connected,
              IF connected.threw
              THEN [tiles |-> connected.tiles, doors |-> <<>>]
              ELSE PlaceDoors(cfg, connected.rooms, connected.tiles))

\* generate from carveRooms on, for the rooms of made
WithCorridors(cfg, made) == WithDoors(cfg, made, CarveAndConnect(cfg, made))

\* generate(preserveBaseRooms) up to its return statement, as the new values
\* of the fields and of the heap.  this.rooms, this.doors and this.tilemap
\* are new arrays (reset, initializeTilemap); the rooms are new objects
\* (generateRooms, restoreBaseRooms).
GenerateFields(cfg, seed, base, preserveBaseRooms) ==
  WithCorridors(cfg,
                IF preserveBaseRooms /\ Len(base) > 0
                THEN RestoredRooms(heap, seed, base)
                ELSE FreshRooms(heap, GenerateRooms(cfg, seed)))

RoomKind(entities) == SelectSeq(entities, LAMBDA e : e.type = "room")

\* id and bounding box of the Room-kind entities, in order
Layout(entities) ==
  LET kept == RoomKind(entities)
  IN  [k \in 1..Len(kept) |->
         [id |-> kept[k].id, x |-> kept[k].x, y |-> kept[k].y,
          width |-> kept[k].width, height |-> kept[k].height]]

\* Only complexityLevel and corridorWidth are among the fields supplied.
OnlyConnectivity(newConfig) ==
  DOMAIN newConfig \subseteq {"complexityLevel", "corridorWidth"}

(***************************************************************************)
(* Bounds and inputs                                                       *)
(***************************************************************************)
\* the calls made on one generator
MaxCalls == 3
\* the calls made on each generator of SpecConfigs
MaxCallsEach == 1
\* the writes of the caller into the snapshots it holds
MaxMutations == 1
\* the caller writes into the first MaxTouched rooms or doors of a snapshot
MaxTouched == 2
\* the seeds are 42 + 3000 * k for k in 0..MaxSeedIndex
MaxSeedIndex == 1
\* the dungeons the scene generates: the first and those of the keys
MaxKeys == 3
\* the draws made from one random source by itself
MaxDraws == 3

Seeds == {42 + 3000 * k : k \in 0..MaxSeedIndex}

\* A DungeonConfig with every field given; complexityLevel and overlapChance
\* in tenths.
NewConfig(dims, counts, sizes, complexity, corridor, overlap, seed) ==
  [dungeonWidth |-> dims[1], dungeonHeight |-> dims[2],
   minRooms |-> counts[1], maxRooms |-> counts[2],
   minRoomSize |-> sizes[1], maxRoomSize |-> sizes[2],
   complexityLevel |-> complexity, corridorWidth |-> corridor,
   overlapChance |-> overlap, seed |-> seed]

\* The configurations of Spec.
Configs ==
  {NewConfig(<<6, 6>>, <<0, 1>>, <<2, 3>>, 5, 1, 10, seed) : seed \in Seeds}
  \cup {NewConfig(<<8, 7>>, <<2, 3>>, <<3, 4>>, 10, 1, 5, seed) : seed \in Seeds}
  \cup {NewConfig(<<8, 8>>, <<3, 4>>, <<3, 4>>, 5, 1, 0, seed) : seed \in Seeds}

\* The configurations of SpecConfigs.
ManyConfigs ==
  {NewConfig(dims, counts, sizes, complexityLevel, corridorWidth,
             overlapChance, seed) :
     dims \in {<<6, 6>>, <<8, 7>>, <<8, 8>>},
     counts \in {<<0, 1>>, <<1, 2>>, <<3, 3>>, <<3, 4>>},
     sizes \in {<<2, 2>>, <<2, 3>>, <<3, 4>>, <<4, 6>>},
     complexityLevel \in {0, 5, 10},
     corridorWidth \in {1, 2, 4},
     overlapChance \in {0, 5, 10},
     seed \in Seeds}

\* The arguments of updateConfig in Spec.
Partials ==
  {[field \in {} |-> 0]}
  \cup {[complexityLevel |-> c] : c \in {0, 10}}
  \cup {[corridorWidth |-> 2]}
  \cup {[dungeonWidth |-> 6]}
  \cup {[seed |-> seed] : seed \in Seeds}

(***************************************************************************)
(* Construction and the operations                                         *)
(***************************************************************************)
\* new DungeonGenerator(cfg), every field of the configuration given
Constructed(cfg) ==
  /\ config = cfg
  /\ rng = cfg.seed
  /\ rooms = <<>>
  /\ tilemap = <<>>
  /\ doors = <<>>
  /\ baseRooms = <<>>
  /\ heap = <<>>
  /\ snapshots = <<>>
  /\ calls = 0
  /\ hist = [op |-> [name |-> "new", arg |-> FALSE],
             prev |-> [name |-> "new", arg |-> FALSE],
             result |-> <<>>, first |-> <<>>, initial |-> <<>>,
             following |-> FALSE, afterInitial |-> FALSE,
             saved |-> <<>>, dropped |-> 0, returned |-> <<>>,
             mutations |-> 0]

Init == \E cfg \in Configs : Constructed(cfg) /\ scene = <<>> /\ parts = <<>>

InitConfigs ==
  \E cfg \in ManyConfigs : Constructed(cfg) /\ scene = <<>> /\ parts = <<>>

\* The DungeonData that generate(false) returns with the configuration cfg
\* and the random source at seed
Rolled(cfg, seed) ==
  LET f == GenerateFields(cfg, seed, <<>>, FALSE)
      r == ReturnData(f.heap, cfg, f.rooms, f.tilemap[1], f.doors)
  IN  Contents(r.heap, r.data)

\* A generate that threw: the fields are as the exception left them, and
\* no DungeonData is returned.
Thrown(f, before, op) ==
  /\ rng' = f.rng
  /\ rooms' = f.rooms
  /\ tilemap' = f.tilemap
  /\ doors' = f.doors
  /\ baseRooms' = f.baseRooms
  /\ heap' = f.heap
  /\ calls' = calls + 1
  /\ hist' = [before EXCEPT !.op = [op EXCEPT !.name = "TypeError"],
                            !.prev = before.op, !.following = FALSE,
                            !.saved = Deref(f.heap, f.baseRooms)]
  /\ UNCHANGED snapshots

\* generate(preserveBaseRooms) with the configuration cfg, the random source
\* at seed and the cache base, as the step op after the history before; the
\* caller keeps what it returns.
GenerateFrom(cfg, seed, base, before, op, preserveBaseRooms) ==
  \E f \in {GenerateFields(cfg, seed, base, preserveBaseRooms)} :
  \/ f.threw /\ Thrown(f, before, op)
  \/ \E r \in {ReturnData(f.heap, cfg, f.rooms, f.tilemap[1], f.doors)} :
     \E value \in {Contents(r.heap, r.data)} :
      /\ ~f.threw
      /\ rng' = f.rng
      /\ rooms' = f.rooms
      /\ tilemap' = f.tilemap
      /\ doors' = f.doors
      /\ baseRooms' = f.baseRooms
      /\ heap' = r.heap
      /\ snapshots' = Append(snapshots, r.data)
      /\ calls' = calls + 1
      /\ hist' = [before EXCEPT
                    !.op = op,
                    !.prev = before.op,
                    !.result = <<value>>,
                    !.first = IF ~preserveBaseRooms /\ before.first = <<>>
                              THEN <<value>> ELSE @,
                    !.initial = IF calls = 0 /\ ~preserveBaseRooms
                                THEN <<Layout(value.rooms)>> ELSE @,
                    !.following = calls = 0 /\ ~preserveBaseRooms,
                    !.afterInitial = preserveBaseRooms /\ before.following,
                    !.saved = IF preserveBaseRooms /\ Len(base) > 0 THEN @
                              ELSE Deref(r.heap, f.baseRooms),
                    !.returned = Append(@, [value |-> value, touched |-> FALSE])]

\* generate(preserveBaseRooms)
Generate(preserveBaseRooms) ==
  /\ GenerateFrom(config, rng, baseRooms, hist,
                  [name |-> "generate", arg |-> preserveBaseRooms],
                  preserveBaseRooms)
  /\ UNCHANGED <<config, scene, parts>>

\* this.config = { ...this.config, ...newConfig }
MergedConfig(cfg, newConfig) ==
  [field \in DOMAIN cfg |->
     IF field \in DOMAIN newConfig THEN newConfig[field] ELSE cfg[field]]

\* The cache after updateConfig(newConfig): emptied if a seed is supplied.
CacheAfterUpdate(base, newConfig) ==
  IF "seed" \in DOMAIN newConfig THEN <<>> ELSE base

\* The history after updateConfig(newConfig)
HistAfterUpdate(before, base, newConfig) ==
  [before EXCEPT
     !.op = [name |-> "updateConfig", arg |-> newConfig],
     !.prev = before.op,
     !.first = <<>>,
     !.following = @ /\ OnlyConnectivity(newConfig),
     !.saved = IF "seed" \in DOMAIN newConfig THEN <<>> ELSE @,
     !.dropped = IF "seed" \in DOMAIN newConfig THEN Len(base) ELSE 0]

\* A faulty updateConfig: the cache is emptied whenever the configuration
\* has a seed.
UpdateConfigClearsAlways(newConfig) ==
  /\ config' = [field \in DOMAIN config |->
                  IF field \in DOMAIN newConfig THEN newConfig[field]
                  ELSE config[field]]
  /\ rng' = config'.seed
  /\ baseRooms' = <<>>
  /\ calls' = calls + 1
  /\ hist' = [hist EXCEPT
                !.op = [name |-> "updateConfig", arg |-> newConfig],
                !.prev = hist.op,
                !.first = <<>>,
                !.following = @ /\ OnlyConnectivity(newConfig),
                !.saved = IF "seed" \in DOMAIN newConfig THEN <<>> ELSE @,
                !.dropped = IF "seed" \in DOMAIN newConfig THEN Len(baseRooms)
                            ELSE 0]
  /\ UNCHANGED <<rooms, tilemap, doors, heap, snapshots, scene, parts>>

\* A faulty updateConfig: the random source is restarted only when a seed
\* is supplied.
UpdateConfigKeepsSource(newConfig) ==
  /\ config' = MergedConfig(config, newConfig)
  /\ rng' = IF "seed" \in DOMAIN newConfig THEN config'.seed ELSE rng
  /\ baseRooms' = CacheAfterUpdate(baseRooms, newConfig)
  /\ calls' = calls + 1
  /\ hist' = HistAfterUpdate(hist, baseRooms, newConfig)
  /\ UNCHANGED <<rooms, tilemap, doors, heap, snapshots, scene, parts>>

\* updateConfig(newConfig): newConfig holds the fields supplied
UpdateConfig(newConfig) ==
  /\ config' = MergedConfig(config, newConfig)
  /\ rng' = config'.seed
  /\ baseRooms' = CacheAfterUpdate(baseRooms, newConfig)
  /\ calls' = calls + 1
  /\ hist' = HistAfterUpdate(hist, baseRooms, newConfig)
  /\ UNCHANGED <<rooms, tilemap, doors, heap, snapshots, scene, parts>>

\* clearBaseRooms()
ClearBaseRooms ==
  /\ baseRooms' = <<>>
  /\ calls' = calls + 1
  /\ hist' = [hist EXCEPT !.op = [name |-> "clearBaseRooms", arg |-> FALSE],
                          !.prev = hist.op,
                          !.following = FALSE,
                          !.saved = <<>>]
  /\ UNCHANGED <<config, rng, rooms, tilemap, doors, heap, snapshots, scene,
                 parts>>

\* The caller writes into the snapshot i it holds: the bounds or the
\* connectedTo of its room k, its door k, or the first cell of its tilemap.
Mutate(i, what, k) ==
  LET d == snapshots[i]
  IN  /\ hist.mutations < MaxMutations
      /\ \/ /\ what = "bounds"
            /\ k \in 1..Len(d.rooms)
            /\ heap' = [heap EXCEPT ![d.rooms[k]].x = @ + 1]
         \/ /\ what = "connectedTo"
            /\ k \in 1..Len(d.rooms)
            /\ heap' = [heap EXCEPT ![d.rooms[k]].connectedTo = Append(@, "room_0")]
         \/ /\ what = "door"
            /\ k \in 1..Len(d.doors)
            /\ heap' = [heap EXCEPT ![d.doors[k]].x = @ + 1]
         \/ /\ what = "tilemap"
            /\ k = 1
            /\ heap' = [heap EXCEPT ![d.tilemap].tiles[0][0] = 2]
      /\ hist' = [hist EXCEPT !.op = [name |-> "mutate", arg |-> what],
                              !.prev = hist.op,
                              !.returned[i].touched = TRUE,
                              !.mutations = @ + 1]
      /\ UNCHANGED <<config, rng, rooms, tilemap, doors, baseRooms, snapshots,
                     calls, scene, parts>>

(***************************************************************************)
(* Scene3 (src/src/scenes/scene3.ts) and its keys.  The scene passes the   *)
(* whole configuration it read with getConfig back to updateConfig.        *)
(***************************************************************************)
\* The configuration of the scene's generator: complexityLevel 0.6,
\* corridorWidth 3 and overlapChance 0.4 as in the scene, on a map, with
\* room counts and room sizes, scaled down from 60 x 60, 3..15 and 4..10.
SceneConfigs ==
  {NewConfig(<<8, 8>>, <<3, 4>>, <<3, 4>>, 6, 3, 4, seed) : seed \in Seeds}

\* The fields corridorWidth and currentComplexity as the scene declares them
InitScene ==
  \E cfg \in SceneConfigs :
    /\ Constructed(cfg)
    /\ scene = [corridorWidth |-> 3, currentComplexity |-> 6]
    /\ parts = <<>>

\* updateConfig(newConfig) and then what generateDungeonWithComplexity does:
\* generate(hasBaseRooms()), as the step op of the scene
Regenerate(newConfig, op) ==
  \E cfg \in {MergedConfig(config, newConfig)} :
  \E base \in {CacheAfterUpdate(baseRooms, newConfig)} :
    /\ config' = cfg
    /\ UNCHANGED parts
    /\ GenerateFrom(cfg, cfg.seed, base,
                    HistAfterUpdate(hist, baseRooms, newConfig), op,
                    Len(base) > 0)

\* generateNewDungeon(), Date.now() being now
GenerateNewDungeon(now) ==
  \E newConfig \in {[config EXCEPT !.seed = now]} :
    /\ config' = MergedConfig(config, newConfig)
    /\ UNCHANGED parts
    /\ scene' = [corridorWidth |-> newConfig.corridorWidth,
                 currentComplexity |-> newConfig.complexityLevel]
    /\ GenerateFrom(config', config'.seed,
                    CacheAfterUpdate(baseRooms, newConfig),
                    HistAfterUpdate(hist, baseRooms, newConfig),
                    [name |-> "generateNewDungeon", arg |-> now], FALSE)

\* The key i of 1..5: updateComplexity(i * 0.2), then
\* generateDungeonWithComplexity()
ComplexityKey(i) ==
  \E complexity \in {i * 2} :
    /\ Len(snapshots) > 0
    /\ scene' = [scene EXCEPT !.currentComplexity = complexity]
    /\ Regenerate([config EXCEPT !.complexityLevel = complexity,
                                 !.corridorWidth = scene.corridorWidth],
                  [name |-> "complexityKey", arg |-> i])

\* A key of 6..0, which stands for the width: setCorridorWidth(width), then
\* generateDungeonWithComplexity()
CorridorWidthKey(width) ==
  /\ Len(snapshots) > 0
  /\ scene' = [scene EXCEPT !.corridorWidth = width]
  /\ Regenerate([config EXCEPT !.corridorWidth = width,
                               !.complexityLevel = scene.currentComplexity],
                [name |-> "corridorWidthKey", arg |-> width])

(***************************************************************************)
(* The private methods one by one: attemptRoomMerge, carveRooms and        *)
(* generateCorridor applied to two rooms as the candidate loop of          *)
(* generateRooms can draw them.                                            *)
(***************************************************************************)
PartConfigs ==
  {NewConfig(<<7, 6>>, <<2, 3>>, <<2, 3>>, 9, corridorWidth, 10, 42) :
     corridorWidth \in {1, 2, 3, 4}}

\* The rooms that NewCandidate can draw as candidate i: a size of
\* minRoomSize..maxRoomSize, at 1 .. dungeonWidth - width - 1 and
\* 1 .. dungeonHeight - height - 1
PartRooms(cfg, i) ==
  {[id |-> RoomId(i), x |-> x, y |-> y, width |-> w, height |-> h,
    type |-> "room", connectedTo |-> <<>>] :
     <<x, y, w, h>> \in
       {t \in (1..cfg.dungeonWidth) \X (1..cfg.dungeonHeight)
                \X (cfg.minRoomSize..cfg.maxRoomSize)
                \X (cfg.minRoomSize..cfg.maxRoomSize) :
          /\ t[1] <= cfg.dungeonWidth - t[3] - 1
          /\ t[2] <= cfg.dungeonHeight - t[4] - 1}}

\* The third rooms: none, or a candidate of the largest width and the
\* smallest height at the left margin.
ThirdRooms(cfg) ==
  {<<>>} \cup {<<room>> : room \in {r \in PartRooms(cfg, 2) :
                                      /\ r.x = 1
                                      /\ r.width = cfg.maxRoomSize
                                      /\ r.height = cfg.minRoomSize}}

InitParts ==
  \E cfg \in PartConfigs :
    \E room1 \in PartRooms(cfg, 0) : \E room2 \in PartRooms(cfg, 1) :
      \E others \in ThirdRooms(cfg) :
        /\ Constructed(cfg)
        /\ scene = <<>>
        /\ parts = [op |-> "generateRooms",
                    rooms |-> <<room1, room2>> \o others,
                    tiles |-> InitializeTilemap(cfg), connections |-> <<>>,
                    done |-> 0, path |-> <<>>, before |-> <<>>,
                    drawn |-> <<>>]

\* The room list and the tilemap as a step found them
Kept == [rooms |-> parts.rooms, tiles |-> parts.tiles]

\* attemptRoomMerge(this.rooms[0], this.rooms[1])
MergeRooms ==
  /\ parts.op = "generateRooms"
  /\ parts' = [parts EXCEPT !.op = "attemptRoomMerge", !.before = Kept,
                            !.rooms = AttemptRoomMerge(parts.rooms, 1, 2)]
  /\ UNCHANGED whole

\* applyControlledOverlapping(); the pairs of ids for which a merge decision
\* was drawn are kept in the order of the draws
OverlapTheRooms ==
  /\ parts.op = "generateRooms"
  /\ \E s \in {ApplyControlledOverlapping(config, rng, parts.rooms)} :
       /\ rng' = s.rng
       /\ parts' = [parts EXCEPT !.op = "applyControlledOverlapping",
                                 !.before = Kept, !.rooms = s.rooms,
                                 !.drawn = s.drawn]
  /\ UNCHANGED <<config, rooms, tilemap, doors, baseRooms, heap, snapshots,
                 calls, hist, scene>>

\* carveRooms()
CarveTheRooms ==
  /\ parts.op = "attemptRoomMerge"
  /\ parts' = [parts EXCEPT !.op = "carveRooms", !.before = Kept,
                            !.tiles = CarveRooms(config, parts.tiles,
                                                 parts.rooms)]
  /\ UNCHANGED whole

\* generateMinimumSpanningTree(), with which connectRooms begins
SpanTheRooms ==
  /\ parts.op = "carveRooms"
  /\ Len(parts.rooms) >= 2
  /\ \E tree \in {GenerateMinimumSpanningTree(parts.rooms)} :
       parts' = [parts EXCEPT !.op = "generateMinimumSpanningTree",
                              !.before = Kept, !.rooms = tree.rooms,
                              !.connections = tree.connections]
  /\ UNCHANGED whole

\* generateCorridor(connection.from, connection.to) for the next connection
\* of the loop of connectRooms; the path that findPath returned is kept
ConnectTheRooms ==
  /\ parts.op \in {"generateMinimumSpanningTree", "generateCorridor"}
  /\ parts.done < Len(parts.connections)
  /\ \E connection \in {parts.connections[parts.done + 1]} :
     \E path \in {FindPath(config, parts.tiles,
                            GetRoomCenter(parts.rooms[connection.from]),
                            GetRoomCenter(parts.rooms[connection.to]))} :
     \E g \in {AddCorridor(config, parts.rooms, parts.tiles,
                            connection.from, connection.to, path)} :
       parts' = [parts EXCEPT !.op = "generateCorridor", !.before = Kept,
                              !.rooms = g.rooms, !.tiles = g.tiles,
                              !.done = @ + 1, !.path = path]
  /\ UNCHANGED whole

Next ==
  \/ calls < MaxCalls /\ \E preserveBaseRooms \in BOOLEAN :
                            Generate(preserveBaseRooms)
  \/ calls < MaxCalls /\ \E newConfig \in Partials : UpdateConfig(newConfig)
  \/ calls < MaxCalls /\ ClearBaseRooms
  \/ \E i \in 1..Len(snapshots) :
       \E what \in {"bounds", "connectedTo", "door", "tilemap"} :
         \E k \in 1..MaxTouched : Mutate(i, what, k)

Spec == Init /\ [][Next]_vars

NextConfigs ==
  calls < MaxCallsEach /\ \E preserveBaseRooms \in BOOLEAN :
                              Generate(preserveBaseRooms)

SpecConfigs == InitConfigs /\ [][NextConfigs]_vars

\* Generators made with seeds of either sign
InitSeeds ==
  \E seed \in {-190624, -123785, -42, -6, 42} :
    /\ Constructed(NewConfig(<<8, 8>>, <<3, 4>>, <<3, 4>>, 10, 1, 0, seed))
    /\ scene = <<>>
    /\ parts = <<>>

SpecSeeds == InitSeeds /\ [][Next]_vars

NextScene ==
  \/ calls < MaxKeys /\ \E now \in Seeds : GenerateNewDungeon(now)
  \/ calls < MaxKeys /\ \E i \in 1..5 : ComplexityKey(i)
  \/ calls < MaxKeys /\ \E width \in 1..5 : CorridorWidthKey(width)

SpecScene == InitScene /\ [][NextScene]_vars

(***************************************************************************)
(* SeededRandom by itself: a random source made with an integer seed, and  *)
(* the draws made from it.                                                 *)
(***************************************************************************)
InitRandom ==
  \E seed \in {-233281, -233280, -3042, -42, -6, -5, -1, 0, 1, 42, 3042,
               233279, 233280} :
    /\ Constructed(NewConfig(<<6, 6>>, <<0, 1>>, <<2, 3>>, 0, 1, 0, seed))
    /\ scene = <<>>
    /\ parts = [op |-> "new SeededRandom", draws |-> 0, min |-> 0, max |-> 0,
                val |-> 0]

\* random(): the value returned is rng' / 233280
Random ==
  /\ rng' = NextSeed(rng)
  /\ parts' = [op |-> "random", draws |-> parts.draws + 1, min |-> 0,
               max |-> 0, val |-> 0]
  /\ UNCHANGED <<config, rooms, tilemap, doors, baseRooms, heap, snapshots,
                 calls, hist, scene>>

\* randomInt(min, max)
RandomIntOf(min, max) ==
  \E drawn \in {RandomInt(rng, min, max)} :
    /\ rng' = drawn.rng
    /\ parts' = [op |-> "randomInt", draws |-> parts.draws + 1, min |-> min,
                 max |-> max, val |-> drawn.val]
    /\ UNCHANGED <<config, rooms, tilemap, doors, baseRooms, heap, snapshots,
                   calls, hist, scene>>

NextRandom ==
  \/ parts.draws < MaxDraws /\ Random
  \/ parts.draws < MaxDraws /\
       \E range \in {<<0, 0>>, <<0, 3>>, <<1, 2>>, <<2, 6>>, <<-2, 2>>} :
         RandomIntOf(range[1], range[2])

SpecRandom == InitRandom /\ [][NextRandom]_vars

(***************************************************************************)
(* The loops of generate, one pass at a step: the fill loop of             *)
(* selectBestRooms, the while loop of generateMinimumSpanningTree and the  *)
(* open-set loop of findPath for each connection of the tree.              *)
(***************************************************************************)
\* selectBestRooms has sorted the candidates and run its first loop
InitLoops ==
  \E cfg \in PartConfigs :
    \E room1 \in {r \in PartRooms(cfg, 0) : Area(r) = 4 /\ r.y = 1} :
    \E room2 \in {r \in PartRooms(cfg, 1) : Area(r) = 4 /\ r.y = 3} :
    \E others \in ThirdRooms(cfg) :
    \E sorted \in {SortByArea(<<room1, room2>> \o others)} :
    \E distributed \in {SelectDistributed(cfg, sorted, Len(sorted),
                                          [k |-> 1, selected |-> <<>>])} :
      /\ Constructed(cfg)
      /\ scene = <<>>
      /\ parts = [op |-> "selectBestRooms", candidates |-> sorted,
                  distributed |-> distributed, selected |-> distributed,
                  tiles |-> <<>>, span |-> <<>>, k |-> 0, search |-> <<>>,
                  unreached |-> 0]

\* A pass of the fill loop, or its exit: this.rooms = selected, carveRooms
\* and the start of generateMinimumSpanningTree
Fill ==
  /\ parts.op = "selectBestRooms"
  /\ \E next \in
        {IF Len(parts.selected) < Len(parts.candidates)
         THEN [parts EXCEPT !.selected = FillStep(parts.candidates, @)]
         ELSE [parts EXCEPT !.op = "generateMinimumSpanningTree",
                            !.tiles = CarveRooms(config,
                                                 InitializeTilemap(config),
                                                 parts.selected),
                            !.span = [rooms |-> parts.selected,
                                      connected |-> <<1>>,
                                      connections |-> <<>>]]} :
       parts' = next
  /\ UNCHANGED whole

\* The state of findPath before the while loop for connection k of the tree
OpenFor(span, k) ==
  OpenAt(GetRoomCenter(span.rooms[span.connections[k].from]),
         GetRoomCenter(span.rooms[span.connections[k].to]))

\* A pass of the while loop of generateMinimumSpanningTree, or its exit and
\* the start of findPath for the first connection
Span ==
  /\ parts.op = "generateMinimumSpanningTree"
  /\ \E next \in
        {IF Len(parts.span.connected) < Len(parts.span.rooms)
         THEN [parts EXCEPT !.span = SpanStep(@)]
         ELSE [parts EXCEPT !.op = "findPath", !.k = 1,
                            !.search = OpenFor(parts.span, 1)]} :
       parts' = next
  /\ UNCHANGED whole

\* A pass of the open-set loop of findPath for connection k, or, after the
\* loop, the rest of generateCorridor and the next connection
Search ==
  /\ parts.op = "findPath"
  /\ \E links \in {parts.span.connections} :
     \E s \in {parts.search} :
     \E next \in
        {IF ~s.done
         THEN [parts EXCEPT
                 !.search = SearchStep(config, parts.tiles,
                              GetRoomCenter(parts.span.rooms[links[parts.k].to]),
                              s)]
         ELSE [parts EXCEPT
                 !.tiles = IF Len(s.path) > 0
                           THEN CarveCorridor(config, @, s.path) ELSE @,
                 !.unreached = IF Len(s.path) > 0 THEN @ ELSE @ + 1,
                 !.op = IF parts.k < Len(links) THEN @ ELSE "return",
                 !.k = @ + 1,
                 !.search = IF parts.k < Len(links)
                            THEN OpenFor(parts.span, parts.k + 1)
                            ELSE <<>>]} :
       parts' = next
  /\ UNCHANGED whole

NextLoops ==
  \/ Fill
  \/ Span
  \/ Search

\* generate runs on until it returns
SpecLoops == InitLoops /\ [][NextLoops]_vars /\ WF_vars(NextLoops)

NextParts ==
  \/ MergeRooms
  \/ OverlapTheRooms
  \/ CarveTheRooms
  \/ SpanTheRooms
  \/ ConnectTheRooms

SpecParts == InitParts /\ [][NextParts]_vars

(***************************************************************************)
(* Vocabulary of the properties                                            *)
(***************************************************************************)
\* The last step is the return of generate(preserveBaseRooms).
Returned(preserveBaseRooms) ==
  hist.op.name = "generate" /\ hist.op.arg = preserveBaseRooms

JustReturned == hist.op.name = "generate"

\* The DungeonData of the last return, as it was returned.
Result == hist.result[1]

Inside(room, width, height) ==
  /\ room.x >= 0
  /\ room.y >= 0
  /\ room.x + room.width <= width
  /\ room.y + room.height <= height

\* The invariant of a configuration: min <= max for both ranges, and the map
\* holds a room of the minimum size with a margin of one tile.
ConfigInvariant(cfg) ==
  /\ cfg.minRooms <= cfg.maxRooms
  /\ cfg.minRoomSize <= cfg.maxRoomSize
  /\ cfg.dungeonWidth > 0
  /\ cfg.dungeonHeight > 0
  /\ cfg.minRoomSize + 2 <= cfg.dungeonWidth
  /\ cfg.minRoomSize + 2 <= cfg.dungeonHeight

Ids(entities) == {entities[k].id : k \in 1..Len(entities)}

\* a and b are joined: one lists the id of the other.
Joined(a, b) == InSeq(a.connectedTo, b.id) \/ InSeq(b.connectedTo, a.id)

\* The entities (by index) joined to one of the set, and the set itself.
Step(entities, set) ==
  set \cup {k \in 1..Len(entities) :
              \E j \in set : Joined(entities[j], entities[k])}

RECURSIVE Closure(_, _)
Closure(entities, set) ==
  IF Step(entities, set) = set THEN set
  ELSE Closure(entities, Step(entities, set))

\* The undirected graph of the connectedTo entries over the entities is
\* connected.
Connected(entities) ==
  Len(entities) = 0 \/ Closure(entities, {1}) = 1..Len(entities)

\* The number of connections among the Room-kind entities: each is listed
\* by both of its rooms.
Edges(entities) ==
  Cardinality({p \in (1..Len(entities)) \X (1..Len(entities)) :
                 /\ p[1] < p[2]
                 /\ entities[p[1]].type = "room"
                 /\ entities[p[2]].type = "room"
                 /\ Joined(entities[p[1]], entities[p[2]])})

FloorBeside(tiles, x, y) ==
  \E k \in 1..Len(Directions) :
     LET nx == x + Directions[k].x
         ny == y + Directions[k].y
     IN  /\ ny \in DOMAIN tiles
         /\ nx \in DOMAIN tiles[ny]
         /\ tiles[ny][nx] = 1

Addresses(d) ==
  {d.rooms[k] : k \in 1..Len(d.rooms)} \cup {d.tilemap}
  \cup {d.doors[k] : k \in 1..Len(d.doors)}

\* The objects of the generator's fields.
Internal ==
  {rooms[k] : k \in 1..Len(rooms)} \cup {tilemap[k] : k \in 1..Len(tilemap)}
  \cup {doors[k] : k \in 1..Len(doors)}
  \cup {baseRooms[k] : k \in 1..Len(baseRooms)}

(***************************************************************************)
(* C1.  As stated: every generate(false) made without an updateConfig      *)
(* since the first generate(false) returns what that first call returned.  *)
(* The random source is not restarted by generate, so the second call      *)
(* draws other numbers.                                                    *)
(***************************************************************************)
\* C1 (as stated): a generate(false) returns the same DungeonData as the
\* first generate(false) made since construction or the last updateConfig.
C1_RepeatedGenerateEqualsFirst ==
  Returned(FALSE) => hist.result = hist.first

(***************************************************************************)
(* C2.  Containment of the Room-kind entities.  As stated: the invariant   *)
(* admits a map that holds the minimum size but not the maximum one, and   *)
(* there the bounds check of the separation puts a room across the edge.   *)
(***************************************************************************)
\* C2 (as stated): the invariant of the configuration alone keeps every
\* Room-kind entity returned by generate(false) inside the map.
C2_RoomsInside ==
  (Returned(FALSE) /\ ConfigInvariant(config))
    => \A k \in 1..Len(Result.rooms) :
          Result.rooms[k].type = "room"
            => Inside(Result.rooms[k], config.dungeonWidth, config.dungeonHeight)

(***************************************************************************)
(* C3.  Connectivity of the returned entities.                             *)
(***************************************************************************)
\* C3: after every generate, with preserveBaseRooms false or true, the
\* undirected graph of the connectedTo entries over all returned entities is
\* connected.
C3_GraphConnected ==
  JustReturned => Connected(Result.rooms)

\* generate(true) restored three rooms or more from the cache and returned
\* them with a corridor entity.
C3_Witness ==
  /\ Returned(TRUE)
  /\ Len(hist.saved) >= 3
  /\ Len(RoomKind(Result.rooms)) >= 3
  /\ Len(Result.rooms) > Len(RoomKind(Result.rooms))

(***************************************************************************)
(* C4.  The returned DungeonData and the generator's fields.               *)
(***************************************************************************)
\* C4 (as stated): when generate returns, no object of the returned
\* DungeonData is an object of the generator's rooms, tilemap, doors or
\* baseRooms.
C4_NoSharedObject ==
  JustReturned => Addresses(snapshots[Len(snapshots)]) \cap Internal = {}

(***************************************************************************)
(* C5.  Snapshots and the cache.                                           *)
(***************************************************************************)
\* C5: a snapshot the caller has not written into still reads as it was
\* returned, whatever calls were made since; and the cache holds the rooms
\* as they were saved, whatever the caller wrote into the snapshots, so that
\* generate(true) restores those rooms.
C5_SnapshotsAndCacheKept ==
  /\ \A i \in 1..Len(snapshots) :
        ~hist.returned[i].touched
          => Contents(heap, snapshots[i]) = hist.returned[i].value
  /\ Deref(heap, baseRooms) = hist.saved
  /\ (Returned(TRUE) /\ Len(hist.saved) > 0)
        => Layout(Result.rooms) = Layout(hist.saved)

\* The caller wrote into the bounds of a room of a snapshot, and then
\* generate(true) restored the cache, two rooms or more.
C5_Witness ==
  /\ Returned(TRUE)
  /\ Len(hist.saved) >= 2
  /\ hist.mutations > 0
  /\ \E i \in 1..Len(snapshots) :
        /\ hist.returned[i].touched
        /\ Layout(Contents(heap, snapshots[i]).rooms)
             # Layout(hist.returned[i].value.rooms)

(***************************************************************************)
(* C6.  generate(true) after the initial generate(false).                  *)
(***************************************************************************)
\* C6 (amended): when the initial generate(false) returned at least one
\* room, a generate(true) that follows it, with only updateConfig calls of
\* complexityLevel and corridorWidth between, returns Room-kind entities of
\* the same ids and bounding boxes in the same order.
C6_LayoutPreservedWhenRoomsCached ==
  (Returned(TRUE) /\ hist.afterInitial /\ Len(hist.initial[1]) > 0)
    => Layout(Result.rooms) = hist.initial[1]

\* C6 (as stated): the same, whatever the initial generate(false) returned.
C6_LayoutPreserved ==
  (Returned(TRUE) /\ hist.afterInitial)
    => Layout(Result.rooms) = hist.initial[1]

\* generate(false), an updateConfig of complexityLevel or corridorWidth and
\* generate(true): the same two rooms or more, joined otherwise or by other
\* corridors than in the first DungeonData.
C6_Witness ==
  /\ Returned(TRUE)
  /\ hist.afterInitial
  /\ calls = 3
  /\ Len(hist.initial[1]) >= 2
  /\ Layout(Result.rooms) = hist.initial[1]
  /\ Result.rooms # hist.returned[1].value.rooms

C8_RoomConnectionsSymmetric ==
  JustReturned =>
    LET kept == RoomKind(Result.rooms)
    IN  /\ \A a \in 1..Len(kept) : \A b \in 1..Len(kept) :
              InSeq(kept[a].connectedTo, kept[b].id)
                => InSeq(kept[b].connectedTo, kept[a].id)
        /\ \A a \in 1..Len(kept) : \A c \in 1..Len(kept[a].connectedTo) :
              kept[a].connectedTo[c] \in Ids(kept)
        /\ \A e \in 1..Len(Result.rooms) :
              Result.rooms[e].type = "corridor"
                => /\ Len(Result.rooms[e].connectedTo) = 2
                   /\ Result.rooms[e].connectedTo[1] \in Ids(kept)
                   /\ Result.rooms[e].connectedTo[2] \in Ids(kept)

\* C8 (as stated): whenever an entity, of either kind, lists another, the
\* other lists it.
C8_ConnectionsSymmetric ==
  JustReturned =>
    \A a \in 1..Len(Result.rooms) : \A b \in 1..Len(Result.rooms) :
       InSeq(Result.rooms[a].connectedTo, Result.rooms[b].id)
         => InSeq(Result.rooms[b].connectedTo, Result.rooms[a].id)

\* A DungeonData of three rooms or more with a connection beyond the
\* spanning tree and a corridor entity.
C8_Witness ==
  /\ JustReturned
  /\ Len(RoomKind(Result.rooms)) >= 3
  /\ Edges(Result.rooms) >= Len(RoomKind(Result.rooms))
  /\ Len(Result.rooms) > Len(RoomKind(Result.rooms))

(***************************************************************************)
(* C9.  Doors in the final tilemap.                                        *)
(***************************************************************************)
\* C9 (as stated): in every returned DungeonData each door is on a Door
\* tile with a Floor tile beside it.
C9_DoorsOnDoorTilesBesideFloor ==
  JustReturned =>
    \A k \in 1..Len(Result.doors) :
       /\ Result.tilemap[Result.doors[k].y][Result.doors[k].x] = 2
       /\ FloorBeside(Result.tilemap, Result.doors[k].x, Result.doors[k].y)

(***************************************************************************)
(* C10.  Doors and connections.                                            *)
(***************************************************************************)
\* C10 (amended): every door belongs to a Room-kind room and one entry of
\* its connectedTo, no two doors to the same room and entry: at most two
\* doors for a connection, one from each of its rooms.
C10_DoorPerRoomAndConnection ==
  JustReturned =>
    LET kept == RoomKind(Result.rooms)
        made == Result.doors
    IN  /\ \A k \in 1..Len(made) :
              \E a \in 1..Len(kept) :
                 /\ made[k].connectsRooms[1] = kept[a].id
                 /\ InSeq(kept[a].connectedTo, made[k].connectsRooms[2])
        /\ \A k \in 1..Len(made) : \A l \in 1..Len(made) :
              made[k].connectsRooms = made[l].connectsRooms => k = l
        /\ Len(made) <= 2 * Edges(Result.rooms)

\* C10 (as stated): the doors are as many as the connections.
C10_OneDoorPerConnection ==
  JustReturned => Len(Result.doors) = Edges(Result.rooms)

\* Three rooms, two connections, four doors.
C10_Witness ==
  /\ JustReturned
  /\ Len(RoomKind(Result.rooms)) = 3
  /\ Edges(Result.rooms) = 2
  /\ Len(Result.doors) = 4

(***************************************************************************)
(* C11.  Shape of the returned tilemap.                                    *)
(***************************************************************************)
\* C11: the tilemap a generate returns has config.dungeonHeight rows of
\* config.dungeonWidth cells, for the configuration of that call; the
\* metadata give the same height and width; every cell is 0, 1 or 2.
C11_TilemapShape ==
  JustReturned =>
    /\ DOMAIN Result.tilemap = 0..(config.dungeonHeight - 1)
    /\ \A y \in DOMAIN Result.tilemap :
          /\ DOMAIN Result.tilemap[y] = 0..(config.dungeonWidth - 1)
          /\ \A x \in DOMAIN Result.tilemap[y] :
                Result.tilemap[y][x] \in {0, 1, 2}
    /\ Result.metadata.height = config.dungeonHeight
    /\ Result.metadata.width = config.dungeonWidth

\* A generate after an updateConfig of dungeonWidth: the tilemap returned is
\* narrower than the first one, not square, and holds a door.
C11_Witness ==
  /\ JustReturned
  /\ Len(hist.returned) >= 2
  /\ Result.metadata.width < hist.returned[1].value.metadata.width
  /\ Result.metadata.width # Result.metadata.height
  /\ \E y \in DOMAIN Result.tilemap : \E x \in DOMAIN Result.tilemap[y] :
        Result.tilemap[y][x] = 2

(***************************************************************************)
(* C12.  The connections added beyond the spanning tree.                   *)
(***************************************************************************)
\* The connections beyond the spanning tree of the Room-kind entities.
ExtraEdges(entities) == Edges(entities) - (Len(RoomKind(entities)) - 1)

\* floor(n * complexityLevel), complexityLevel in tenths
AllowedExtraEdges(cfg, n) == (n * cfg.complexityLevel) \div 10

\* C12 (amended): addComplexityConnections adds at most
\* floor(n * complexityLevel) connections to the spanning tree of the n
\* rooms, one for each attempt that drew two distinct rooms not yet
\* connected, and none when complexityLevel is 0.
C12_AtMostFloorExtraEdges ==
  (JustReturned /\ Len(RoomKind(Result.rooms)) >= 1)
    => /\ ExtraEdges(Result.rooms) >= 0
       /\ ExtraEdges(Result.rooms)
            <= AllowedExtraEdges(config, Len(RoomKind(Result.rooms)))
       /\ config.complexityLevel = 0 => ExtraEdges(Result.rooms) = 0

\* C12 (as stated): the connections added are exactly
\* floor(n * complexityLevel).
C12_ExactlyFloorExtraEdges ==
  (JustReturned /\ Len(RoomKind(Result.rooms)) >= 1)
    => ExtraEdges(Result.rooms)
         = AllowedExtraEdges(config, Len(RoomKind(Result.rooms)))

\* Three rooms or more, a connection added, and an attempt that added none.
C12_Witness ==
  /\ JustReturned
  /\ Len(RoomKind(Result.rooms)) >= 3
  /\ ExtraEdges(Result.rooms) >= 1
  /\ ExtraEdges(Result.rooms)
       < AllowedExtraEdges(config, Len(RoomKind(Result.rooms)))

(***************************************************************************)
(* C13.  The rooms in the tilemap.  As stated: a corridor is carved only   *)
(* when findPath returns a path, and findPath returns none when the        *)
(* footprint of the corridor does not fit around the center of the room    *)
(* it has to reach.                                                        *)
(***************************************************************************)
\* The tiles of the map inside the room.
TilesOf(tiles, room) ==
  {t \in (DOMAIN tiles[0]) \X (DOMAIN tiles) : InRoom(room, t[1], t[2])}

\* The tiles that are not Wall.
Open(tiles) ==
  {t \in (DOMAIN tiles[0]) \X (DOMAIN tiles) : tiles[t[2]][t[1]] # 0}

\* The open tiles one move away from a tile of the set, and the set itself.
Spread(tiles, set) ==
  set \cup {t \in Open(tiles) :
              \E k \in 1..Len(Directions) :
                 <<t[1] + Directions[k].x, t[2] + Directions[k].y>> \in set}

RECURSIVE Flood(_, _)
Flood(tiles, set) ==
  IF Spread(tiles, set) = set THEN set
  ELSE Flood(tiles, Spread(tiles, set))

\* C13 (as stated): in every returned DungeonData each Room-kind room has a
\* tile that 4-directional moves over Floor and Door tiles reach from the
\* tiles of the first Room-kind room.
C13_RoomsReachableInTilemap ==
  (JustReturned /\ Len(RoomKind(Result.rooms)) >= 1)
    => LET kept == RoomKind(Result.rooms)
           reached == Flood(Result.tilemap, TilesOf(Result.tilemap, kept[1]))
       IN  \A k \in 1..Len(kept) :
              TilesOf(Result.tilemap, kept[k]) \cap reached # {}


\* The last step is a complexity key or a corridor-width key of the scene.
KeyPressed == hist.op.name \in {"complexityKey", "corridorWidthKey"}

\* The DungeonData the scene showed before the last step
Shown == hist.returned[Len(hist.returned) - 1].value

\* C14: in Scene3, once a dungeon has been generated, a complexity key (1-5)
\* or a corridor-width key (6-0) returns Room-kind entities with the same ids
\* and bounding boxes as the dungeon shown before the key press.
C14_KeysPreserveBaseRooms ==
  KeyPressed => Layout(Result.rooms) = Layout(Shown.rooms)

\* The last step applied the private method named.
Applied(method) == parts.op = method

\* The tiles that are Floor in the tilemap tiles
FloorTiles(tiles) ==
  {t \in (DOMAIN tiles[0]) \X (DOMAIN tiles) : tiles[t[2]][t[1]] = 1}

\* The tiles inside the footprint of a room of the list
RoomTiles(tiles, list) ==
  {t \in (DOMAIN tiles[0]) \X (DOMAIN tiles) :
     \E k \in 1..Len(list) : InRoom(list[k], t[1], t[2])}

\* The centers that the last generateCorridor connected
Start == GetRoomCenter(parts.rooms[parts.connections[parts.done].from])
End == GetRoomCenter(parts.rooms[parts.connections[parts.done].to])

\* The two rooms that generateCorridor connected have the same center.
CoincidentCenters == Applied("generateCorridor") /\ Start = End

\* The tiles (px + dx, py + dy) of the map with -h <= dx < width - h and
\* -h <= dy < width - h, h = floor((width - 1) / 2), for the points of path
Blocks(cfg, tiles, path) ==
  LET h == (cfg.corridorWidth - 1) \div 2
  IN  {t \in (DOMAIN tiles[0]) \X (DOMAIN tiles) :
         \E k \in 1..Len(path) :
            /\ -h <= t[1] - path[k].x /\ t[1] - path[k].x < cfg.corridorWidth - h
            /\ -h <= t[2] - path[k].y /\ t[2] - path[k].y < cfg.corridorWidth - h}

\* C15 as stated: with coincident centers findPath returns one point, no
\* Corridor entity is registered and no tile outside the room footprints
\* becomes Floor, whatever the corridorWidth.
C15_CoincidentCentersCarveNothing ==
  CoincidentCenters =>
    /\ Len(parts.path) = 1
    /\ parts.rooms = parts.before.rooms
    /\ FloorTiles(parts.tiles) \subseteq RoomTiles(parts.tiles, parts.rooms)

\* C15: with coincident centers findPath returns one point, no Corridor
\* entity is registered, and carving marks Floor only tiles of the
\* corridorWidth block around the shared center: none outside the room
\* footprints when corridorWidth is 1.
C15_CoincidentCentersCarveOneBlock ==
  CoincidentCenters =>
    /\ Len(parts.path) = 1
    /\ parts.rooms = parts.before.rooms
    /\ FloorTiles(parts.tiles) \ FloorTiles(parts.before.tiles)
         \subseteq Blocks(config, parts.tiles, <<Start>>)
    /\ config.corridorWidth = 1 =>
         FloorTiles(parts.tiles) \subseteq RoomTiles(parts.tiles, parts.rooms)

C15_Witness ==
  /\ CoincidentCenters
  /\ Len(parts.path) = 1
  /\ FloorTiles(parts.tiles) # FloorTiles(parts.before.tiles)

\* C16: carveCorridor sets to Floor exactly the tiles of the map in the
\* blocks of the path points and changes no other tile; for corridorWidth 1
\* the carved tiles are the path's own.
C16_CarvedExactlyTheBlocks ==
  (Applied("generateCorridor") /\ Len(parts.path) > 0) =>
    /\ \A y \in DOMAIN parts.tiles : \A x \in DOMAIN parts.tiles[y] :
          parts.tiles[y][x] =
            IF <<x, y>> \in Blocks(config, parts.tiles, parts.path) THEN 1
            ELSE parts.before.tiles[y][x]
    /\ config.corridorWidth = 1 =>
          FloorTiles(parts.tiles) \ FloorTiles(parts.before.tiles)
            \subseteq {<<parts.path[k].x, parts.path[k].y>> :
                         k \in 1..Len(parts.path)}

\* A path whose first block reaches beyond the map, and whose blocks make
\* new Floor.
C16_Witness ==
  /\ Applied("generateCorridor")
  /\ Len(parts.path) > 1
  /\ ~IsValidPathTile(config, parts.path[1].x, parts.path[1].y)
  /\ FloorTiles(parts.tiles) # FloorTiles(parts.before.tiles)

\* The extent of the overlap of two rooms along each axis, negative where
\* they are apart
Extent(room1, room2) ==
  [x |-> Min(room1.x + room1.width, room2.x + room2.width)
           - Max(room1.x, room2.x),
   y |-> Min(room1.y + room1.height, room2.y + room2.height)
           - Max(room1.y, room2.y)]

\* The smallest box that holds both rooms, as [left, top, right, bottom]
UnionBox(room1, room2) ==
  [left |-> Min(room1.x, room2.x), top |-> Min(room1.y, room2.y),
   right |-> Max(room1.x + room1.width, room2.x + room2.width),
   bottom |-> Max(room1.y + room1.height, room2.y + room2.height)]

BoxOf(room) ==
  [left |-> room.x, top |-> room.y, right |-> room.x + room.width,
   bottom |-> room.y + room.height]

\* C17: attemptRoomMerge merges iff the rooms overlap on both axes by less
\* than 70% of the smaller width and of the smaller height; on a merge
\* room1 takes the union bounding box and room2 is removed, otherwise the
\* room list is as it was.
C17_MergeIffSmallOverlap ==
  Applied("attemptRoomMerge") =>
    LET room1 == parts.before.rooms[1]
        room2 == parts.before.rooms[2]
        extent == Extent(room1, room2)
    IN  IF /\ extent.x > 0
           /\ extent.y > 0
           /\ 10 * extent.x < 7 * Min(room1.width, room2.width)
           /\ 10 * extent.y < 7 * Min(room1.height, room2.height)
        THEN /\ Len(parts.rooms) = Len(parts.before.rooms) - 1
             /\ parts.rooms[1].id = room1.id
             /\ BoxOf(parts.rooms[1]) = UnionBox(room1, room2)
        ELSE parts.rooms = parts.before.rooms

C17_Witness ==
  /\ Applied("attemptRoomMerge")
  /\ Len(parts.rooms) = 1
  /\ parts.rooms[1].width > parts.before.rooms[1].width
  /\ parts.rooms[1].x < parts.before.rooms[1].x

\* Twice the cost of a step into the tile t: 0.5 into Floor, 1 otherwise
StepCost(tiles, t) == IF tiles[t[2]][t[1]] = 1 THEN 1 ELSE 2

\* Twice the total step cost of a path: every point but the first is
\* stepped into
PathCost(tiles, path) ==
  LET RECURSIVE Sum(_)
      Sum(k) == IF k < 2 THEN 0
                ELSE Sum(k - 1) + StepCost(tiles, <<path[k].x, path[k].y>>)
  IN  Sum(Len(path))

\* The tiles whose corridor footprint is within the map
PathTiles(cfg) ==
  {t \in (0..(cfg.dungeonWidth - 1)) \X (0..(cfg.dungeonHeight - 1)) :
     IsValidPathTile(cfg, t[1], t[2])}

Beside(t, u) == Abs(t[1] - u[1]) + Abs(t[2] - u[2]) = 1

\* More than twice the cost of any path without a repeated tile
Unreached(cfg) == 2 * cfg.dungeonWidth * cfg.dungeonHeight + 1

\* One round of relaxation of the costs cost[t] of reaching the tiles
Relaxed(tiles, cost) ==
  [t \in DOMAIN cost |->
     LET through == {cost[u] + StepCost(tiles, t) :
                       u \in {u \in DOMAIN cost : Beside(t, u)}}
     IN  IF \E c \in through : c < cost[t]
         THEN CHOOSE c \in through : \A d \in through : c <= d
         ELSE cost[t]]

RECURSIVE LowestCosts(_, _)
LowestCosts(tiles, cost) ==
  LET next == Relaxed(tiles, cost)
  IN  IF next = cost THEN cost ELSE LowestCosts(tiles, next)

\* Twice the lowest total step cost of a 4-directional path from start to
\* end over the tiles whose footprint is within the map
LowestCost(cfg, tiles, start, end) ==
  LowestCosts(tiles,
              [t \in PathTiles(cfg) |->
                 IF t = <<start.x, start.y>> THEN 0 ELSE Unreached(cfg)])
    [<<end.x, end.y>>]

\* C20: every path that findPath returns, from a start whose footprint is
\* within the map, has the lowest total step cost of the 4-directional
\* paths from start to end that keep the footprint within the map.
C20_PathsHaveLowestCost ==
  (/\ Applied("generateCorridor")
   /\ Len(parts.path) > 0
   /\ IsValidPathTile(config, Start.x, Start.y)) =>
     PathCost(parts.before.tiles, parts.path)
       = LowestCost(config, parts.before.tiles, Start, End)

\* The number of Room-kind entities of the last return
RoomCount == Len(RoomKind(Result.rooms))

C19_EntitiesInsideMap ==
  JustReturned =>
    \A k \in 1..Len(Result.rooms) :
       Inside(Result.rooms[k], Result.metadata.width, Result.metadata.height)

\* C22: for every integer seed the state of the random source after a draw
\* is an integer of 0..233279, so that random() is in [0, 1), and
\* randomInt(min, max) with min <= max returns an integer of min..max.
C22_DrawsInRange ==
  /\ parts.op \in {"random", "randomInt"} => rng \in 0..(Modulus - 1)
  /\ parts.op = "randomInt" => parts.val \in parts.min..parts.max

\* C23: applyControlledOverlapping draws a merge decision exactly once for
\* every unordered pair of rooms that are both in the list when the pass
\* ends; the removal of a merged room makes the loops skip no pair.
C23_EveryPairDrawnOnce ==
  Applied("applyControlledOverlapping") =>
    \A a, b \in Ids(parts.rooms) :
      a # b => Cardinality({k \in DOMAIN parts.drawn :
                              parts.drawn[k] = {a, b}}) = 1

\* C24: for n >= 2 rooms generateMinimumSpanningTree returns n - 1 edges;
\* every edge joins a room already connected (the first room, or the far end
\* of an earlier edge) to a room not yet connected, so that the edges are
\* acyclic and connect all n rooms; and the center distance of each edge is
\* the least among all (connected, unconnected) pairs of its step.
C24_SpanningTreeOfNearestPairs ==
  Applied("generateMinimumSpanningTree") =>
    LET n == Len(parts.rooms)
        edges == parts.connections
        connected(k) == {1} \cup {edges[m].to : m \in 1..(k - 1)}
        d(a, b) == Distance2(GetRoomCenter(parts.rooms[a]),
                             GetRoomCenter(parts.rooms[b]))
    IN  /\ Len(edges) = n - 1
        /\ connected(n) = 1..n
        /\ \A k \in 1..Len(edges) :
             /\ edges[k].from \in connected(k)
             /\ edges[k].to \in (1..n) \ connected(k)
             /\ \A a \in connected(k) : \A b \in (1..n) \ connected(k) :
                  d(edges[k].from, edges[k].to) <= d(a, b)

\* Three rooms; the first edge reaches the third room and the second edge
\* starts there.
C24_Witness ==
  /\ Applied("generateMinimumSpanningTree")
  /\ Len(parts.rooms) = 3
  /\ parts.connections[2].from = parts.connections[1].to
  /\ parts.connections[1].to = 3

\* C25: a path of findPath that is not empty begins at start and ends at
\* end, visits no coordinate twice, moves one unit along one axis between
\* consecutive points, and every point after the first keeps the
\* corridorWidth footprint inside the map.
C25_PathsAreSimpleWalks ==
  (Applied("generateCorridor") /\ Len(parts.path) > 0) =>
    LET path == parts.path
    IN  /\ path[1] = Start
        /\ path[Len(path)] = End
        /\ \A k, m \in 1..Len(path) : path[k] = path[m] => k = m
        /\ \A k \in 2..Len(path) :
             /\ Abs(path[k].x - path[k - 1].x)
                  + Abs(path[k].y - path[k - 1].y) = 1
             /\ IsValidPathTile(config, path[k].x, path[k].y)

\* A path that turns, with a footprint wider than one tile.
C25_Witness ==
  /\ Applied("generateCorridor")
  /\ config.corridorWidth > 1
  /\ Len(parts.path) > 4
  /\ \E k \in 2..Len(parts.path) : parts.path[k].x # parts.path[1].x
  /\ \E k \in 2..Len(parts.path) : parts.path[k].y # parts.path[1].y

\* C26: generateCorridor appends a Corridor entity to the room list exactly
\* when the path has more than 4 points; when findPath returns no path, the
\* tilemap and the room list are as before, and each of the two rooms still
\* lists the other in connectedTo.
C26_CorridorEntityIffLongPath ==
  Applied("generateCorridor") =>
    LET from == parts.connections[parts.done].from
        to == parts.connections[parts.done].to
        n == Len(parts.before.rooms)
    IN  /\ Len(parts.path) > 4 =>
             /\ Len(parts.rooms) = n + 1
             /\ SubSeq(parts.rooms, 1, n) = parts.before.rooms
             /\ parts.rooms[n + 1].type = "corridor"
        /\ Len(parts.path) <= 4 => parts.rooms = parts.before.rooms
        /\ Len(parts.path) = 0 =>
             /\ parts.tiles = parts.before.tiles
             /\ InSeq(parts.rooms[from].connectedTo, parts.rooms[to].id)
             /\ InSeq(parts.rooms[to].connectedTo, parts.rooms[from].id)

\* No path was found for an edge, after a corridor was registered for the
\* edge before it.
C26_Witness ==
  /\ Applied("generateCorridor")
  /\ parts.done = 2
  /\ Len(parts.path) = 0
  /\ Len(parts.rooms) = 4

\* C30: updateConfig restarts the random source from config.seed also when
\* no seed is supplied: the generate(false) that follows an updateConfig
\* returns the DungeonData that the first generate(false) of a generator
\* newly constructed with the same configuration returns.
C30_UpdateConfigRestartsSource ==
  (Returned(FALSE) /\ hist.prev.name = "updateConfig")
    => Result = Rolled(config, config.seed)

\* generate(false), updateConfig({}) and generate(false) again, which
\* returns the rooms of the first call.
C30_Witness ==
  /\ Returned(FALSE)
  /\ hist.prev.name = "updateConfig"
  /\ DOMAIN hist.prev.arg = {}
  /\ calls = 3
  /\ Len(Result.rooms) >= 2
  /\ Result = hist.returned[1].value

\* C28: when a generate returns, the cache holds the ids and bounding boxes
\* of the Room-kind entities of the DungeonData returned, in order, and
\* hasBaseRooms() is true exactly when metadata.roomCount > 0; and a
\* generate(true) that finds the cache empty returns what generate(false)
\* would have returned.
C28_CacheIsTheLayoutReturned ==
  [][(calls' = calls + 1 /\ hist'.op.name = "generate") =>
       /\ Layout(Deref(heap', baseRooms')) = Layout(hist'.result[1].rooms)
       /\ (Len(baseRooms') > 0) = (hist'.result[1].metadata.roomCount > 0)
       /\ (hist'.op.arg /\ Len(baseRooms) = 0) =>
            hist'.result[1] = Rolled(config, rng)]_vars

\* generate(false), clearBaseRooms() and a generate(true) that lays out and
\* saves other rooms, two or more.
C28_Witness ==
  /\ Returned(TRUE)
  /\ hist.prev.name = "clearBaseRooms"
  /\ calls = 3
  /\ Len(baseRooms) >= 2
  /\ Layout(Result.rooms) # Layout(hist.returned[1].value.rooms)

\* C29: in every DungeonData returned, every id in the connectedTo of an
\* entity and both ids of the connectsRooms of every door are ids of
\* Room-kind entities of the rooms list; no entity lists its own id, and no
\* connectedTo holds an id twice.
C29_IdsReferToRoomsReturned ==
  JustReturned =>
    LET kept == Ids(RoomKind(Result.rooms))
    IN  /\ \A k \in 1..Len(Result.rooms) :
             LET listed == Result.rooms[k].connectedTo
             IN  /\ \A m \in 1..Len(listed) :
                      /\ listed[m] \in kept
                      /\ listed[m] # Result.rooms[k].id
                 /\ \A m, n \in 1..Len(listed) :
                      listed[m] = listed[n] => m = n
        /\ \A k \in 1..Len(Result.doors) :
             /\ Result.doors[k].connectsRooms[1] \in kept
             /\ Result.doors[k].connectsRooms[2] \in kept

\* Three rooms or more, an edge added to the spanning tree, a Corridor
\* entity and doors.
C29_Witness ==
  /\ Returned(FALSE)
  /\ Len(RoomKind(Result.rooms)) >= 3
  /\ Edges(Result.rooms) >= Len(RoomKind(Result.rooms))
  /\ Len(Result.rooms) > Len(RoomKind(Result.rooms))
  /\ Len(Result.doors) > 0

\* C21: for corridorWidth >= 1, through any sequence of updateConfig and
\* generate calls, generate never throws: the tilemap is read and written
\* inside the map only, so that it keeps dungeonHeight rows of dungeonWidth
\* cells.
C21_GenerateNeverThrows ==
  /\ hist.op.name # "TypeError"
  /\ hist.op.name \in {"generate", "TypeError"} =>
       /\ DOMAIN heap[tilemap[1]].tiles = 0..(config.dungeonHeight - 1)
       /\ \A y \in DOMAIN heap[tilemap[1]].tiles :
            DOMAIN heap[tilemap[1]].tiles[y] = 0..(config.dungeonWidth - 1)

\* C27: every generate call terminates: the fill loop of selectBestRooms,
\* the while loop of generateMinimumSpanningTree and the open-set loop of
\* findPath each stop, also when the goal cannot be reached.
C27_GenerateTerminates == <>(parts.op = "return")

\* The run has ended after passes of the fill loop, with three rooms
\* connected, and a goal that findPath could not reach.
C27_Witness ==
  /\ parts.op = "return"
  /\ Len(parts.selected) > Len(parts.distributed)
  /\ Len(parts.span.connections) = 2
  /\ parts.unreached > 0
=============================================================================
